---- MODULE Spec2Model ----
(***************************************************************************)
(* Montuno generator: progression text -> rhythm schedule -> linked        *)
(* voicings -> rendered note list -> output file.                          *)
(*                                                                         *)
(* A chord symbol, a token and a text are sequences of lexemes (strings).  *)
(* Non-ASCII lexemes of the source are written in ASCII:                   *)
(*   "maj" is the triangle (major seventh), "dim" the degree sign,         *)
(*   "hdim" the slashed o, "Decimas" is the tenths style name.             *)
(* Times are integer ticks; one eighth note (grid) is GRID ticks.          *)
(***************************************************************************)
EXTENDS Integers, Sequences, FiniteSets, TLC

VARIABLES
    pc,              \* position of the run inside montuno_tradicional
    corrida,         \* number of runs started so far
    entrada,         \* arguments and configuration of the current run
    PRIMER_BLOQUE,   \* midi_utils.PRIMER_BLOQUE (set by main.generar)
    PATRON_REPETIDO, \* midi_utils.PATRON_REPETIDO (set by main.generar)
    segmentos,       \* procesar_progresion_en_grupos: segments still to process
    num_compases,    \* procesar_progresion_en_grupos: len(segmentos)
    resultado,       \* procesar_progresion_en_grupos: assignments built so far
    indice_patron,   \* procesar_progresion_en_grupos: pattern index
    posicion,        \* procesar_progresion_en_grupos: current eighth
    arm_actual,      \* procesar_progresion_en_grupos: running style
    paso_sched,      \* what the last processed segment did (history)
    progresion,      \* generar_voicings_enlazados_tradicional: its argument
    voicings,        \* generar_voicings_enlazados_tradicional: list built so far
    bajo_anterior,   \* generar_voicings_enlazados_tradicional: previous bass
    it,              \* the last loop iteration of the voicing generator (history)
    ref,             \* exportar_montuno: reference notes, span and grid
    posiciones,      \* exportar_montuno: replayed baseline positions
    notas_generadas, \* exportar_montuno: what generar_notas_mixtas returned
    nuevas_notas,    \* exportar_montuno: the notes handed to the writer
    salida,          \* the output file: whether it was written, and its notes
    error,           \* "none" or the kind of the exception that ended the run
    previas          \* finished runs: entrada and results (history)

vars == << pc, corrida, entrada, PRIMER_BLOQUE, PATRON_REPETIDO, segmentos,
           num_compases, resultado, indice_patron, posicion, arm_actual,
           paso_sched, progresion, voicings, bajo_anterior, it, ref,
           posiciones, notas_generadas, nuevas_notas, salida, error,
           previas >>

varsSched == << segmentos, num_compases, resultado, indice_patron, posicion,
                arm_actual, paso_sched >>
varsVoicings == << progresion, voicings, bajo_anterior, it >>
varsRender == << ref, posiciones, notas_generadas, nuevas_notas >>
varsConfig == << entrada, PRIMER_BLOQUE, PATRON_REPETIDO >>

----------------------------------------------------------------------------
(* Generic helpers *)

Abs(x) == IF x < 0 THEN -x ELSE x

MinDe(S) == CHOOSE x \in S : \A y \in S : x <= y

MaxDe(S) == CHOOSE x \in S : \A y \in S : x >= y

Rango(s) == { s[i] : i \in 1..Len(s) }

RECURSIVE InsertarEntero(_, _)
InsertarEntero(x, s) ==
    IF s = << >> THEN << x >>
    ELSE IF x < Head(s) THEN << x >> \o s
    ELSE << Head(s) >> \o InsertarEntero(x, Tail(s))

\* sorted() of a list of integers
RECURSIVE sorted(_)
sorted(s) ==
    IF s = << >> THEN << >>
    ELSE InsertarEntero(s[Len(s)], sorted(SubSeq(s, 1, Len(s) - 1)))

----------------------------------------------------------------------------
(* voicings.py: tables *)

RANGO_MIN == 53
RANGO_MAX == 67

INTERVALOS_TRADICIONALES ==
    (<< "6" >> :> << 0, 4, 7, 9 >>) @@
    (<< "7" >> :> << 0, 4, 7, 10 >>) @@
    (<< "maj" >> :> << 0, 4, 7, 11 >>) @@
    (<< "m", "6" >> :> << 0, 3, 7, 9 >>) @@
    (<< "m", "7" >> :> << 0, 3, 7, 10 >>) @@
    (<< "m", "maj" >> :> << 0, 3, 7, 11 >>) @@
    (<< "+", "7" >> :> << 0, 4, 8, 10 >>) @@
    (<< "maj", "sus4" >> :> << 0, 5, 7, 11 >>) @@
    (<< "maj", "sus2" >> :> << 0, 2, 7, 11 >>) @@
    (<< "7", "sus4" >> :> << 0, 5, 7, 10 >>) @@
    (<< "7", "sus2" >> :> << 0, 2, 7, 10 >>) @@
    (<< "dim", "7" >> :> << 0, 3, 6, 9 >>) @@
    (<< "dim", "maj" >> :> << 0, 3, 6, 11 >>) @@
    (<< "hdim" >> :> << 0, 3, 6, 10 >>) @@
    (<< "7", "(b5)" >> :> << 0, 4, 6, 10 >>) @@
    (<< "7", "(b9)" >> :> << 0, 4, 7, 10, 13 >>) @@
    (<< "+", "7", "(b9)" >> :> << 0, 4, 8, 10, 13 >>) @@
    (<< "7", "(b5)", "b9" >> :> << 0, 4, 6, 10, 13 >>) @@
    (<< "7", "sus4", "(b9)" >> :> << 0, 5, 7, 10, 13 >>) @@
    (<< "maj", "(b5)" >> :> << 0, 4, 6, 11 >>)

NOTAS ==
    (<< "C" >> :> 0) @@ (<< "B", "#" >> :> 0) @@
    (<< "C", "#" >> :> 1) @@ (<< "D", "b" >> :> 1) @@
    (<< "D" >> :> 2) @@
    (<< "D", "#" >> :> 3) @@ (<< "E", "b" >> :> 3) @@
    (<< "E" >> :> 4) @@ (<< "F", "b" >> :> 4) @@
    (<< "F" >> :> 5) @@ (<< "E", "#" >> :> 5) @@
    (<< "F", "#" >> :> 6) @@ (<< "G", "b" >> :> 6) @@
    (<< "G" >> :> 7) @@
    (<< "G", "#" >> :> 8) @@ (<< "A", "b" >> :> 8) @@
    (<< "A" >> :> 9) @@
    (<< "A", "#" >> :> 10) @@ (<< "B", "b" >> :> 10) @@
    (<< "B" >> :> 11) @@ (<< "C", "b" >> :> 11)

\* The suffix alternatives of the regular expression of parsear_nombre_acorde
SUFIJOS_REGEX ==
    { << "m", "6" >>, << "m", "7" >>, << "m", "maj" >>, << "m" >>, << "6" >>,
      << "7" >>, << "maj", "sus4" >>, << "maj", "sus2" >>, << "maj" >>,
      << "+", "7" >>, << "dim", "7" >>, << "dim", "maj" >>, << "hdim" >>,
      << "7", "sus4" >>, << "7", "sus2" >>, << "7", "(b5)" >>,
      << "7", "(b9)" >>, << "+", "7", "(b9)" >>, << "7", "(b5)", "b9" >>,
      << "7", "sus4", "(b9)" >>, << "maj", "(b5)" >> }

LETRAS_REGEX == { "A", "B", "C", "D", "E", "F", "G" }

ALTERACIONES_REGEX == { "b", "#" }

----------------------------------------------------------------------------
(* voicings.py: chord parsing *)

\* re.match of ^([A-G][b#]?)(suffix alternatives)$ : no suffix alternative
\* begins with an accidental, so an accidental in second place can only
\* belong to the root group.
parsear_nombre_acorde(nombre) ==
    IF nombre = << >> \/ Head(nombre) \notin LETRAS_REGEX
    THEN [ok |-> FALSE, root |-> -1, suf |-> << >>]
    ELSE
        LET n_raiz == IF Len(nombre) >= 2 /\ nombre[2] \in ALTERACIONES_REGEX
                      THEN 2 ELSE 1
            raiz == SubSeq(nombre, 1, n_raiz)
            resto == SubSeq(nombre, n_raiz + 1, Len(nombre))
        IN  IF resto \in SUFIJOS_REGEX
            THEN [ok |-> TRUE, root |-> NOTAS[raiz], suf |-> resto]
            ELSE [ok |-> FALSE, root |-> -1, suf |-> << >>]

----------------------------------------------------------------------------
(* voicings.py: linked voicing generation *)

\* referencia = [55, 57, 60, 64]
referencia == << 55, 57, 60, 64 >>

RECURSIVE SubirHasta(_, _)
SubirHasta(pitch, minimo) ==
    IF pitch < minimo THEN SubirHasta(pitch + 12, minimo) ELSE pitch

RECURSIVE BajarHasta(_, _)
BajarHasta(pitch, maximo) ==
    IF pitch > maximo THEN BajarHasta(pitch - 12, maximo) ELSE pitch

\* while pitch < RANGO_MIN: pitch += 12; while pitch > RANGO_MAX: pitch -= 12
_ajustar_octava(pitch) == BajarHasta(SubirHasta(pitch, RANGO_MIN), RANGO_MAX)

\* the nested helper ajustar(pc, target)
ajustar(p, target) ==
    LET pitch == target + ((p - target) % 12)
    IN  IF Abs(pitch - target) > Abs(pitch - 12 - target)
        THEN pitch - 12 ELSE pitch

\* pcs leaving the root out of the chords of five intervals
pcs_de_sin_fundamental(root, ints) ==
    [ i \in 1..4 |-> (root + ints[i + Len(ints) - 4]) % 12 ]

\* pcs = [(root + i) % 12 for i in ints]
pcs_de(root, ints) == [ i \in 1..Len(ints) |-> (root + ints[i]) % 12 ]

elegir_bajo_estricto(pcs, bajo_ant) ==
    LET pc_y == pcs[3]
        pc_z == pcs[4]
        bajo_y == ajustar(pc_y, bajo_ant)
        bajo_z == ajustar(pc_z, bajo_ant)
    IN  IF Abs(bajo_y - bajo_ant) < Abs(bajo_z - bajo_ant)
        THEN [bajo |-> _ajustar_octava(bajo_y), bajo_intervalo |-> "y",
              restantes_pcs |-> << pcs[1], pcs[2], pc_z >>]
        ELSE [bajo |-> _ajustar_octava(bajo_z), bajo_intervalo |-> "z",
              restantes_pcs |-> << pcs[1], pcs[2], pc_y >>]

elegir_bajo_desde_fundamental(pcs, bajo_ant) ==
    LET pc_y == pcs[1]
        pc_z == pcs[2]
        bajo_y == ajustar(pc_y, bajo_ant)
        bajo_z == ajustar(pc_z, bajo_ant)
    IN  IF Abs(bajo_y - bajo_ant) <= Abs(bajo_z - bajo_ant)
        THEN [bajo |-> _ajustar_octava(bajo_y), bajo_intervalo |-> "y",
              restantes_pcs |-> << pcs[3], pcs[4], pc_z >>]
        ELSE [bajo |-> _ajustar_octava(bajo_z), bajo_intervalo |-> "z",
              restantes_pcs |-> << pcs[3], pcs[4], pc_y >>]

\* The choice of the bass between the intervals y (pcs[2]) and z (pcs[3])
elegir_bajo(pcs, bajo_ant) ==
    LET pc_y == pcs[3]
        pc_z == pcs[4]
        bajo_y == ajustar(pc_y, bajo_ant)
        bajo_z == ajustar(pc_z, bajo_ant)
    IN  IF Abs(bajo_y - bajo_ant) <= Abs(bajo_z - bajo_ant)
        THEN [bajo |-> _ajustar_octava(bajo_y), bajo_intervalo |-> "y",
              restantes_pcs |-> << pcs[1], pcs[2], pc_z >>]
        ELSE [bajo |-> _ajustar_octava(bajo_z), bajo_intervalo |-> "z",
              restantes_pcs |-> << pcs[1], pcs[2], pc_y >>]

\* nota_restante without the loop that follows _ajustar_octava
nota_restante_en_rango(p, posref, bajo) ==
    LET cerca == ajustar(p, posref)
        sobre == SubirHasta(cerca, bajo + 1)
    IN  _ajustar_octava(sobre)

\* One remaining tone: near its reference position, then above the bass
nota_restante(p, posref, bajo) ==
    LET cerca == ajustar(p, posref)
        sobre == SubirHasta(cerca, bajo + 1)
        enrango == _ajustar_octava(sobre)
    IN  SubirHasta(enrango, bajo + 1)

notas_restantes(restantes_pcs, bajo) ==
    [ k \in 1..3 |-> nota_restante(restantes_pcs[k], referencia[k + 1], bajo) ]

\* One iteration of "for nombre in progresion" from previous bass bajo_ant
iteracion(nombre, bajo_ant, indice) ==
    LET p == parsear_nombre_acorde(nombre)
    IN  IF ~p.ok
        THEN [estado |-> "ValueError", indice |-> indice, nombre |-> nombre,
              root |-> -1, suf |-> << >>, voicing |-> << >>,
              bajo |-> bajo_ant, bajo_intervalo |-> "", bajo_previo |-> bajo_ant]
        ELSE IF p.suf \notin DOMAIN INTERVALOS_TRADICIONALES
        THEN [estado |-> "KeyError", indice |-> indice, nombre |-> nombre,
              root |-> p.root, suf |-> p.suf, voicing |-> << >>,
              bajo |-> bajo_ant, bajo_intervalo |-> "", bajo_previo |-> bajo_ant]
        ELSE
            LET ints == INTERVALOS_TRADICIONALES[p.suf]
                pcs == pcs_de(p.root, ints)
                e == elegir_bajo(pcs, bajo_ant)
                resto == notas_restantes(e.restantes_pcs, e.bajo)
            IN  [estado |-> "ok", indice |-> indice, nombre |-> nombre,
                 root |-> p.root, suf |-> p.suf,
                 voicing |-> sorted(<< e.bajo >> \o resto),
                 bajo |-> e.bajo, bajo_intervalo |-> e.bajo_intervalo,
                 bajo_previo |-> bajo_ant]

it_inicial ==
    [estado |-> "inicio", indice |-> -1, nombre |-> << >>, root |-> -1,
     suf |-> << >>, voicing |-> << >>, bajo |-> referencia[1],
     bajo_intervalo |-> "", bajo_previo |-> referencia[1]]

----------------------------------------------------------------------------
(* State before any call *)

EntradaNula == [texto |-> << >>, armonizacion |-> "", clave |-> ""]

RefNula == [notes |-> << >>, posiciones_base |-> << >>, total_cor_ref |-> 0]

\* the output path before anything is written to it
SinArchivo == [escrito |-> FALSE, notas |-> << >>]

PasoNulo ==
    [rama |-> "", indice_antes |-> 0, posicion_antes |-> 0, n_antes |-> 0,
     formas |-> << >>]

Init ==
    /\ pc = "idle"
    /\ corrida = 0
    /\ entrada = EntradaNula
    /\ PRIMER_BLOQUE = << 3, 4, 4, 3 >>
    /\ PATRON_REPETIDO = << 5, 4, 4, 3 >>
    /\ segmentos = << >>
    /\ num_compases = 0
    /\ resultado = << >>
    /\ indice_patron = 0
    /\ posicion = 0
    /\ arm_actual = ""
    /\ paso_sched = PasoNulo
    /\ progresion = << >>
    /\ voicings = << >>
    /\ bajo_anterior = referencia[1]
    /\ it = it_inicial
    /\ ref = RefNula
    /\ posiciones = << >>
    /\ notas_generadas = << >>
    /\ nuevas_notas = << >>
    /\ salida = SinArchivo
    /\ error = "none"
    /\ previas = << >>

----------------------------------------------------------------------------
(* generar_voicings_enlazados_tradicional called on its own, the caller     *)
(* supplying the progression one chord symbol at a time.  `it` holds the    *)
(* locals of the iteration just executed (it.indice is the index of its     *)
(* chord); SiguienteAcorde returns to the loop header, where those locals   *)
(* are dead and only bajo_anterior is carried into the next iteration.      *)

MaxProg == 3

RaicesEntrada == DOMAIN NOTAS \cup { << "H" >>, << >>, << "C", "b", "b" >> }

SufijosEntrada ==
    SUFIJOS_REGEX \cup
    { << >>, << "9" >>, << "m", "9" >>, << "maj", "7" >>, << "sus4" >> }

Simbolos == { r \o s : r \in RaicesEntrada, s \in SufijosEntrada }

LlamarVoicings ==
    /\ pc = "idle"
    /\ pc' = "voicings_libre"
    /\ voicings' = << >>
    /\ bajo_anterior' = referencia[1]
    /\ it' = it_inicial
    /\ UNCHANGED << corrida, varsConfig, varsSched, progresion, varsRender,
                    salida, error, previas >>

VoicingLibre ==
    /\ pc = "voicings_libre"
    /\ it.estado \in { "inicio", "cabecera" }
    /\ it.indice + 1 < MaxProg
    /\ \E nombre \in Simbolos :
         LET r == iteracion(nombre, bajo_anterior, it.indice + 1)
         IN  /\ r.estado = "ok"
             /\ it' = r
             /\ bajo_anterior' = r.bajo
    /\ UNCHANGED << pc, corrida, varsConfig, varsSched, progresion, voicings,
                    varsRender, salida, error, previas >>

AcordeNoReconocidoLibre ==
    /\ pc = "voicings_libre"
    /\ it.estado \in { "inicio", "cabecera" }
    /\ it.indice + 1 < MaxProg
    /\ \E nombre \in Simbolos :
         LET r == iteracion(nombre, bajo_anterior, it.indice + 1)
         IN  /\ r.estado = "ValueError"
             /\ it' = r
    /\ pc' = "error"
    /\ error' = "ValueError: Acorde no reconocido"
    /\ UNCHANGED << corrida, varsConfig, varsSched, progresion, voicings,
                    bajo_anterior, varsRender, salida, previas >>

SufijoSinIntervalosLibre ==
    /\ pc = "voicings_libre"
    /\ it.estado \in { "inicio", "cabecera" }
    /\ it.indice + 1 < MaxProg
    /\ \E nombre \in Simbolos :
         LET r == iteracion(nombre, bajo_anterior, it.indice + 1)
         IN  /\ r.estado = "KeyError"
             /\ it' = r
    /\ pc' = "error"
    /\ error' = "KeyError"
    /\ UNCHANGED << corrida, varsConfig, varsSched, progresion, voicings,
                    bajo_anterior, varsRender, salida, previas >>

SiguienteAcorde ==
    /\ pc = "voicings_libre"
    /\ it.estado = "ok"
    /\ it' = [it_inicial EXCEPT !.estado = "cabecera", !.indice = it.indice,
                                !.bajo = bajo_anterior,
                                !.bajo_previo = bajo_anterior]
    /\ UNCHANGED << pc, corrida, varsConfig, varsSched, progresion, voicings,
                    bajo_anterior, varsRender, salida, error, previas >>

NextVoicings ==
    \/ LlamarVoicings
    \/ VoicingLibre
    \/ SiguienteAcorde
    \/ AcordeNoReconocidoLibre
    \/ SufijoSinIntervalosLibre

SpecVoicings == Init /\ [][NextVoicings]_vars

----------------------------------------------------------------------------
(* Claims about the voicing generator and the chord parser *)

PitchesMidi == 0..127

\* distance from previous bass `prev` to the nearest octave transposition of
\* pitch class p
DistanciaMinima(p, prev) ==
    MinDe({ Abs(q - prev) : q \in { x \in PitchesMidi : x % 12 = p } })

BajoColocado == MinDe(Rango(it.voicing))

\* C1: the lowest pitch of every generated voicing has the pitch class of the
\* chord's fifth or of its fourth-listed (seventh-equivalent) interval, and
\* never that of the root or the third.
C1_BajoQuintaOSeptima ==
    it.estado = "ok" =>
        LET ints == INTERVALOS_TRADICIONALES[it.suf]
            clase == BajoColocado % 12
        IN  /\ clase \in { (it.root + ints[3]) % 12, (it.root + ints[4]) % 12 }
            /\ clase \notin { it.root % 12, (it.root + ints[2]) % 12 }

C1_Testigo ==
    /\ it.estado = "ok"
    /\ it.indice = 1
    /\ Len(INTERVALOS_TRADICIONALES[it.suf]) = 5
    /\ it.bajo_intervalo = "z"
    /\ BajoColocado % 12 = (it.root + 10) % 12

C8_ParserDosResultados ==
    it.estado \in { "ok", "ValueError", "KeyError" } =>
        LET p == parsear_nombre_acorde(it.nombre)
        IN  /\ p.ok =>
                /\ p.root \in 0..11
                /\ p.suf \in DOMAIN INTERVALOS_TRADICIONALES
                /\ Len(INTERVALOS_TRADICIONALES[p.suf]) \in { 4, 5 }
            /\ ~p.ok => error = "ValueError: Acorde no reconocido"
            /\ error \in { "none", "ValueError: Acorde no reconocido" }

----------------------------------------------------------------------------
(* midi_utils.py: the rhythm scheduler (procesar_progresion_en_grupos) *)

BARRA == "|"
ESPACIO == " "

\* the pattern pairs without a lead-in: the repeated pattern from the start
CLAVES_sin_primer_bloque ==
    ("Clave 2-3" :> [primer_bloque |-> << 5, 4, 4, 3 >>,
                     patron_repetido |-> << 5, 4, 4, 3 >>]) @@
    ("Clave 3-2" :> [primer_bloque |-> << 4, 3, 5, 4 >>,
                     patron_repetido |-> << 4, 3, 5, 4 >>])

\* main.CLAVES: the pattern pair of each clave
CLAVES ==
    ("Clave 2-3" :> [primer_bloque |-> << 3, 4, 4, 3 >>,
                     patron_repetido |-> << 5, 4, 4, 3 >>]) @@
    ("Clave 3-2" :> [primer_bloque |-> << 3, 3, 5, 4 >>,
                     patron_repetido |-> << 4, 3, 5, 4 >>])

\* arm_map of procesar_token: marker lexeme -> style
arm_map ==
    ("(8)" :> "Octavas") @@ ("(15)" :> "Doble octava") @@
    ("(10)" :> "Decimas") @@ ("(13)" :> "Treceavas")

\* str.capitalize() on the style names a caller passes
capitalize ==
    ("" :> "") @@ ("Octavas" :> "Octavas") @@ ("octavas" :> "Octavas") @@
    ("Doble octava" :> "Doble octava") @@ ("Decimas" :> "Decimas") @@
    ("Treceavas" :> "Treceavas")

\* str.split(sep) on a lexeme sequence: the pieces between separators
RECURSIVE split(_, _)
split(texto, sep) ==
    IF \A i \in 1..Len(texto) : texto[i] # sep
    THEN << texto >>
    ELSE LET k == MinDe({ i \in 1..Len(texto) : texto[i] = sep })
         IN  << SubSeq(texto, 1, k - 1) >>
                 \o split(SubSeq(texto, k + 1, Len(texto)), sep)

\* str.strip(): without leading and trailing whitespace
strip(s) ==
    LET no_blancos == { i \in 1..Len(s) : s[i] # ESPACIO }
    IN  IF no_blancos = {} THEN << >>
        ELSE SubSeq(s, MinDe(no_blancos), MaxDe(no_blancos))

SinVacios(lista) == SelectSeq(lista, LAMBDA x : x # << >>)

\* the segments of a text, blank ones kept
segmentos_con_vacios(texto) ==
    LET partes == split(texto, BARRA)
    IN  [ i \in 1..Len(partes) |-> strip(partes[i]) ]

\* segmentos = [s.strip() for s in texto.split("|") if s.strip()]
segmentos_de(texto) ==
    LET partes == split(texto, BARRA)
    IN  SinVacios([ i \in 1..Len(partes) |-> strip(partes[i]) ])

\* tokens = [t for t in seg.split() if t]
tokens_de(seg) == SinVacios(split(seg, ESPACIO))

\* procesar_token where a bare marker leaves the running style alone
procesar_token_sin_persistencia(token, arm) ==
    IF Head(token) \in DOMAIN arm_map
    THEN LET nuevo == arm_map[Head(token)]
             resto == Tail(token)
         IN  IF resto # << >>
             THEN [info |-> << [nombre |-> resto, arm |-> nuevo] >>,
                   arm_actual |-> nuevo]
             ELSE [info |-> << >>, arm_actual |-> arm]
    ELSE [info |-> << [nombre |-> token, arm |-> arm] >>, arm_actual |-> arm]

\* procesar_token with running style arm: the chord entry (or none) and the
\* running style afterwards
procesar_token(token, arm) ==
    IF Head(token) \in DOMAIN arm_map
    THEN LET nuevo == arm_map[Head(token)]
             resto == Tail(token)
         IN  IF resto # << >>
             THEN [info |-> << [nombre |-> resto, arm |-> nuevo] >>,
                   arm_actual |-> nuevo]
             ELSE [info |-> << >>, arm_actual |-> nuevo]
    ELSE [info |-> << [nombre |-> token, arm |-> arm] >>, arm_actual |-> arm]

\* "for tok in tokens": the chords of a segment and the running style after it
RECURSIVE acordes_de(_, _)
acordes_de(tokens, arm) ==
    IF tokens = << >> THEN [acordes |-> << >>, arm_actual |-> arm]
    ELSE LET r == procesar_token(Head(tokens), arm)
             s == acordes_de(Tail(tokens), r.arm_actual)
         IN  [acordes |-> r.info \o s.acordes, arm_actual |-> s.arm_actual]

\* the lead-in and the repeated pattern taken as one cycle
siguiente_grupo_ciclico(primer_bloque, patron_repetido, indice) ==
    (primer_bloque \o patron_repetido)[
        (indice % (Len(primer_bloque) + Len(patron_repetido))) + 1]

\* _siguiente_grupo(indice) over a pattern pair
siguiente_grupo_de(primer_bloque, patron_repetido, indice) ==
    IF indice < Len(primer_bloque)
    THEN primer_bloque[indice + 1]
    ELSE patron_repetido[((indice - Len(primer_bloque)) % Len(patron_repetido)) + 1]

_siguiente_grupo(indice) ==
    siguiente_grupo_de(PRIMER_BLOQUE, PATRON_REPETIDO, indice)

range_desde_uno(desde, hasta) == [ k \in 1..(hasta - desde) |-> desde + k ]

\* list(range(desde, hasta))
range(desde, hasta) == [ k \in 1..(hasta - desde) |-> desde + k - 1 ]

asignar_un_acorde_un_grupo(acordes, indice, pos) ==
    LET g1 == _siguiente_grupo(indice)
        g2 == _siguiente_grupo(indice + 1)
        dur == g1
    IN  [nuevos |-> << [nombre |-> acordes[1].nombre,
                        indices |-> range(pos, pos + dur),
                        arm |-> acordes[1].arm] >>,
         posicion |-> pos + dur,
         indice_patron |-> indice + 1]

\* the branch len(acordes) == 1
asignar_un_acorde(acordes, indice, pos) ==
    LET g1 == _siguiente_grupo(indice)
        g2 == _siguiente_grupo(indice + 1)
        dur == g1 + g2
    IN  [nuevos |-> << [nombre |-> acordes[1].nombre,
                        indices |-> range(pos, pos + dur),
                        arm |-> acordes[1].arm] >>,
         posicion |-> pos + dur,
         indice_patron |-> indice + 2]

\* the branch len(acordes) == 2
asignar_dos_acordes(acordes, indice, pos) ==
    LET g1 == _siguiente_grupo(indice)
        g2 == _siguiente_grupo(indice + 1)
    IN  [nuevos |-> << [nombre |-> acordes[1].nombre,
                        indices |-> range(pos, pos + g1),
                        arm |-> acordes[1].arm],
                       [nombre |-> acordes[2].nombre,
                        indices |-> range(pos + g1, pos + g1 + g2),
                        arm |-> acordes[2].arm] >>,
         posicion |-> pos + g1 + g2,
         indice_patron |-> indice + 2]

----------------------------------------------------------------------------
(* A run: main.generar configures the pattern pair and calls                *)
(* montuno_tradicional, which starts procesar_progresion_en_grupos.         *)

\* what a finished run produced (what its caller can observe)
ResumenCorrida ==
    [entrada |-> entrada,
     error |-> error,
     asignaciones |-> IF pc = "done" \/ error \in { "KeyError",
                            "ValueError: Acorde no reconocido",
                            "ZeroDivisionError" }
                      THEN << resultado, num_compases >> ELSE << >>,
     voicings |-> IF pc = "done" \/ error = "ZeroDivisionError"
                  THEN voicings ELSE << >>,
     referencia |-> IF pc = "done" \/ error = "ZeroDivisionError"
                    THEN ref.notes ELSE << >>,
     salida |-> salida]

Iniciar(Entradas, max_corridas) ==
    /\ pc \in { "idle", "done", "error" }
    /\ corrida < max_corridas
    /\ \E e \in Entradas :
         /\ entrada' = e
         /\ PRIMER_BLOQUE' = CLAVES[e.clave].primer_bloque
         /\ PATRON_REPETIDO' = CLAVES[e.clave].patron_repetido
         /\ segmentos' = segmentos_de(e.texto)
         /\ num_compases' = Len(segmentos_de(e.texto))
         /\ arm_actual' = capitalize[e.armonizacion]
    /\ resultado' = << >>
    /\ indice_patron' = 0
    /\ posicion' = 0
    /\ paso_sched' = PasoNulo
    /\ corrida' = corrida + 1
    /\ previas' = IF pc = "idle" THEN previas ELSE Append(previas, ResumenCorrida)
    /\ pc' = "sched"
    /\ salida' = SinArchivo
    /\ error' = "none"
    /\ UNCHANGED << varsVoicings, varsRender >>

PasoDe(rama, n_acordes) ==
    [rama |-> rama, indice_antes |-> indice_patron,
     posicion_antes |-> posicion, n_antes |-> Len(resultado),
     formas |-> Append(paso_sched.formas, n_acordes)]

\* a loop iteration "for seg in segmentos" with one chord in the segment
SegUnAcorde ==
    /\ pc = "sched"
    /\ segmentos # << >>
    /\ LET r == acordes_de(tokens_de(Head(segmentos)), arm_actual)
       IN  /\ Len(r.acordes) = 1
           /\ LET a == asignar_un_acorde(r.acordes, indice_patron, posicion)
              IN  /\ resultado' = resultado \o a.nuevos
                  /\ posicion' = a.posicion
                  /\ indice_patron' = a.indice_patron
           /\ arm_actual' = r.arm_actual
    /\ paso_sched' = PasoDe("uno", 1)
    /\ segmentos' = Tail(segmentos)
    /\ UNCHANGED << pc, corrida, varsConfig, num_compases, varsVoicings,
                    varsRender, salida, error, previas >>

\* a loop iteration with two chords in the segment
SegDosAcordes ==
    /\ pc = "sched"
    /\ segmentos # << >>
    /\ LET r == acordes_de(tokens_de(Head(segmentos)), arm_actual)
       IN  /\ Len(r.acordes) = 2
           /\ LET a == asignar_dos_acordes(r.acordes, indice_patron, posicion)
              IN  /\ resultado' = resultado \o a.nuevos
                  /\ posicion' = a.posicion
                  /\ indice_patron' = a.indice_patron
           /\ arm_actual' = r.arm_actual
    /\ paso_sched' = PasoDe("dos", 2)
    /\ segmentos' = Tail(segmentos)
    /\ UNCHANGED << pc, corrida, varsConfig, num_compases, varsVoicings,
                    varsRender, salida, error, previas >>

\* a loop iteration whose segment holds only harmonization markers, raising
\* the error of the malformed segment
SegSinAcordesRechazado ==
    /\ pc = "sched"
    /\ segmentos # << >>
    /\ LET r == acordes_de(tokens_de(Head(segmentos)), arm_actual)
       IN  /\ Len(r.acordes) = 0
           /\ arm_actual' = r.arm_actual
    /\ paso_sched' = PasoDe("cero", 0)
    /\ pc' = "error"
    /\ error' = "ValueError: Cada segmento debe contener uno o dos acordes"
    /\ UNCHANGED << corrida, varsConfig, segmentos, num_compases, resultado,
                    indice_patron, posicion, varsVoicings, varsRender,
                    salida, previas >>

\* a loop iteration whose segment holds only harmonization markers: continue
SegSinAcordes ==
    /\ pc = "sched"
    /\ segmentos # << >>
    /\ LET r == acordes_de(tokens_de(Head(segmentos)), arm_actual)
       IN  /\ Len(r.acordes) = 0
           /\ arm_actual' = r.arm_actual
    /\ paso_sched' = PasoDe("cero", 0)
    /\ segmentos' = Tail(segmentos)
    /\ UNCHANGED << pc, corrida, varsConfig, num_compases, resultado,
                    indice_patron, posicion, varsVoicings, varsRender,
                    salida, error, previas >>

\* a loop iteration with three or more chords that keeps the first two
SegMalformadoTolerado ==
    /\ pc = "sched"
    /\ segmentos # << >>
    /\ LET r == acordes_de(tokens_de(Head(segmentos)), arm_actual)
       IN  /\ Len(r.acordes) > 2
           /\ LET a == asignar_dos_acordes(r.acordes, indice_patron, posicion)
              IN  /\ resultado' = resultado \o a.nuevos
                  /\ posicion' = a.posicion
                  /\ indice_patron' = a.indice_patron
           /\ arm_actual' = r.arm_actual
           /\ paso_sched' = PasoDe("mal", Len(r.acordes))
    /\ segmentos' = Tail(segmentos)
    /\ UNCHANGED << pc, corrida, varsConfig, num_compases, varsVoicings,
                    varsRender, salida, error, previas >>

\* a loop iteration with three or more chords: raise ValueError
SegMalformado ==
    /\ pc = "sched"
    /\ segmentos # << >>
    /\ LET r == acordes_de(tokens_de(Head(segmentos)), arm_actual)
       IN  /\ Len(r.acordes) > 2
           /\ arm_actual' = r.arm_actual
           /\ paso_sched' = PasoDe("mal", Len(r.acordes))
    /\ pc' = "error"
    /\ error' = "ValueError: Cada segmento debe contener uno o dos acordes"
    /\ UNCHANGED << corrida, varsConfig, segmentos, num_compases, resultado,
                    indice_patron, posicion, varsVoicings, varsRender,
                    salida, previas >>

\* what generar_voicings_enlazados_tradicional sets before its loop
iniciar_voicings_sin_reinicio ==
    [voicings |-> << >>, bajo_anterior |-> bajo_anterior]

iniciar_voicings ==
    [voicings |-> << >>, bajo_anterior |-> referencia[1]]

\* procesar_progresion_en_grupos returns; montuno_tradicional extracts the
\* chord names and calls generar_voicings_enlazados_tradicional
RetornarSched ==
    /\ pc = "sched"
    /\ segmentos = << >>
    /\ pc' = "voicings"
    /\ progresion' = [ i \in 1..Len(resultado) |-> resultado[i].nombre ]
    /\ voicings' = iniciar_voicings.voicings
    /\ bajo_anterior' = iniciar_voicings.bajo_anterior
    /\ it' = it_inicial
    /\ UNCHANGED << corrida, varsConfig, varsSched, varsRender, salida,
                    error, previas >>

----------------------------------------------------------------------------
(* The scheduler on its own, over all texts of at most MaxPalabrasSched     *)
(* words                                                                    *)

MaxPalabrasSched == 7

RECURSIVE TextosDe(_, _)
TextosDe(Palabras, n) ==
    IF n = 0 THEN { << >> }
    ELSE { << >> } \cup
         { w \o t : w \in Palabras, t \in TextosDe(Palabras, n - 1) }

PalabrasSched == { << "C", "7" >>, << BARRA >>, << ESPACIO >>, << "(10)" >> }

EntradasSched ==
    [texto : TextosDe(PalabrasSched, MaxPalabrasSched),
     armonizacion : { "octavas" },
     clave : DOMAIN CLAVES]

IniciarSched == Iniciar(EntradasSched, 1)

NextSched ==
    \/ IniciarSched
    \/ SegUnAcorde
    \/ SegDosAcordes
    \/ SegSinAcordes
    \/ SegMalformado
    \/ RetornarSched

SpecSched == Init /\ [][NextSched]_vars

----------------------------------------------------------------------------
(* Claims about the scheduler *)

Ultimo(s) == s[Len(s)]

\* the pattern value at absolute index k for the clave of the current run
PatronDeEntrada(k) ==
    siguiente_grupo_de(CLAVES[entrada.clave].primer_bloque,
                       CLAVES[entrada.clave].patron_repetido, k)

RECURSIVE SumaPatron(_)
SumaPatron(n) == IF n = 0 THEN 0 ELSE SumaPatron(n - 1) + PatronDeEntrada(n - 1)

\* C3: the slot lists of the assignments are non-empty runs of consecutive
\* integers, the first starts at 0 and each next one starts one past the end
\* of the previous one; no slot is assigned twice and none is skipped: the
\* union is 0..T-1, T being the sum of the pattern values consumed.
C3_SlotsContiguos ==
    pc \in { "sched", "voicings" } =>
        LET n == Len(resultado)
            slots(i) == resultado[i].indices
            T == SumaPatron(indice_patron)
        IN  /\ \A i \in 1..n :
                  /\ Len(slots(i)) >= 1
                  /\ \A k \in 1..(Len(slots(i)) - 1) :
                        slots(i)[k + 1] = slots(i)[k] + 1
            /\ n >= 1 => slots(1)[1] = 0
            /\ \A i \in 1..(n - 1) : slots(i + 1)[1] = Ultimo(slots(i)) + 1
            /\ \A i, j \in 1..n :
                  i # j => Rango(slots(i)) \cap Rango(slots(j)) = {}
            /\ UNION { Rango(slots(i)) : i \in 1..n } = 0..(T - 1)

\* a returned schedule in which a chord's slot range straddles a bar line
C3_Testigo ==
    /\ pc = "voicings"
    /\ Len(resultado) >= 3
    /\ \E i \in 1..Len(resultado) : { 7, 8 } \subseteq Rango(resultado[i].indices)
    /\ \E i \in 1..Len(resultado) : { 15, 16 } \subseteq Rango(resultado[i].indices)

ConAcordes(formas) == Len(SelectSeq(formas, LAMBDA c : c \in { 1, 2 }))

\* C4: a segment with one chord gets pattern(i) + pattern(i+1) slots, a
\* segment with two chords gives pattern(i) slots to the left chord and
\* pattern(i+1) to the right one, both advance the pattern index by 2, so
\* after n chord-bearing segments the first 2n pattern values are consumed;
\* one chord, two chords, one chord with lead-in [3,4,4,3] yields the slots
\* 0-6, 7-10, 11-13 and 14-22.
C4_ConsumoPatron ==
    pc \in { "sched", "voicings" } =>
        LET i == paso_sched.indice_antes
            n == Len(resultado)
        IN  /\ paso_sched.rama = "uno" =>
                /\ n = paso_sched.n_antes + 1
                /\ resultado[n].indices =
                       range(paso_sched.posicion_antes,
                             paso_sched.posicion_antes
                                 + PatronDeEntrada(i) + PatronDeEntrada(i + 1))
                /\ indice_patron = i + 2
            /\ paso_sched.rama = "dos" =>
                /\ n = paso_sched.n_antes + 2
                /\ resultado[n - 1].indices =
                       range(paso_sched.posicion_antes,
                             paso_sched.posicion_antes + PatronDeEntrada(i))
                /\ resultado[n].indices =
                       range(paso_sched.posicion_antes + PatronDeEntrada(i),
                             paso_sched.posicion_antes + PatronDeEntrada(i)
                                 + PatronDeEntrada(i + 1))
                /\ indice_patron = i + 2
            /\ paso_sched.rama = "cero" =>
                /\ n = paso_sched.n_antes
                /\ indice_patron = i
            /\ indice_patron = 2 * ConAcordes(paso_sched.formas)
            /\ (entrada.clave = "Clave 2-3" /\ paso_sched.formas = << 1, 2, 1 >>) =>
                  [ k \in 1..n |-> resultado[k].indices ] =
                      << range(0, 7), range(7, 11), range(11, 14), range(14, 23) >>

C4_Testigo ==
    /\ pc = "voicings"
    /\ entrada.clave = "Clave 2-3"
    /\ paso_sched.formas = << 1, 2, 1 >>
    /\ paso_sched.rama = "uno"
    /\ paso_sched.indice_antes = 4
    /\ Len(resultado) = 4
    /\ Ultimo(resultado[4].indices) = 22

----------------------------------------------------------------------------
(* midi_utils.py: reading and replaying the reference *)

\* ticks per eighth note (grid = 60 / bpm / 2 seconds)
GRID == 2

NOTAS_BASE == << 55, 57, 60, 64 >>

\* list.index
index(lista, x) == MinDe({ i \in 1..Len(lista) : lista[i] = x }) - 1

LexMenor(k1, k2) == k1[1] < k2[1] \/ (k1[1] = k2[1] /\ k1[2] < k2[2])

\* the sort keys used on notes: start, (start, pitch) and (pitch, start)
ClaveDe(n, clave) ==
    IF clave = "start" THEN << n.start, 0 >>
    ELSE IF clave = "start, pitch" THEN << n.start, n.pitch >>
    ELSE << n.pitch, n.start >>

\* sorted(s, key=...): stable, the key is a pair compared lexicographically;
\* each element goes to the place given by the number of elements before it
ordenar(s, clave) ==
    LET t == s \o << >>
        n == Len(t)
        claves == [ i \in 1..n |-> ClaveDe(t[i], clave) ] \o << >>
        antes(j, i) == LexMenor(claves[j], claves[i])
                          \/ (claves[j] = claves[i] /\ j < i)
        rango_de == [ i \in 1..n |->
                        Cardinality({ j \in 1..n : antes(j, i) }) + 1 ] \o << >>
    IN  [ r \in 1..n |-> t[CHOOSE i \in 1..n : rango_de[i] = r] ] \o << >>

\* int(round(a / g)) for integers a and g > 0: Python rounds halves to even
round_div(a, g) ==
    LET q == a \div g
        r == a % g
    IN  IF 2 * r < g THEN q
        ELSE IF 2 * r > g THEN q + 1
        ELSE IF q % 2 = 0 THEN q ELSE q + 1

\* leer_midi_referencia: the notes of the first instrument ordered by start
leer_midi_referencia(archivo) == ordenar(archivo, "start")

\* obtener_posiciones_referencia
obtener_posiciones_referencia(notes) ==
    ordenar(SelectSeq(notes, LAMBDA n : n.pitch \in Rango(NOTAS_BASE)),
            "start, pitch")

\* _grid_and_bpm: the number of eighths of the reference
total_cor_de(notes) ==
    LET total == IF notes = << >> THEN 0
                 ELSE MaxDe({ notes[i].end : i \in 1..Len(notes) })
    IN  round_div(total, GRID)

\* grupos_ref[idx] of construir_posiciones_secuenciales (absolute times kept)
grupo_ref(posiciones_base, idx, grid_seg) ==
    SelectSeq(posiciones_base, LAMBDA p : round_div(p.start, grid_seg) = idx)

\* the notes moved to another slot with their end left where it was
desplazar_inicio(notas, delta) ==
    [ i \in 1..Len(notas) |->
        [pitch |-> notas[i].pitch, start |-> notas[i].start + delta,
         end |-> notas[i].end, velocity |-> notas[i].velocity] ]

\* the notes of a reference slot moved to a destination slot
desplazar(notas, delta) ==
    [ i \in 1..Len(notas) |->
        [pitch |-> notas[i].pitch, start |-> notas[i].start + delta,
         end |-> notas[i].end + delta, velocity |-> notas[i].velocity] ]

RECURSIVE repetir(_, _, _, _, _)
repetir(posiciones_base, dest_idx, total_cor_dest, total_cor_ref, grid_seg) ==
    IF dest_idx >= total_cor_dest THEN << >>
    ELSE LET ref_idx == dest_idx % total_cor_ref
         IN  desplazar(grupo_ref(posiciones_base, ref_idx, grid_seg),
                       (dest_idx - ref_idx) * grid_seg)
                 \o repetir(posiciones_base, dest_idx + 1, total_cor_dest,
                            total_cor_ref, grid_seg)

\* construir_posiciones_secuenciales (total_cor_ref > 0 or total_cor_dest = 0)
construir_posiciones_secuenciales(posiciones_base, total_cor_dest, total_cor_ref, grid_seg) ==
    ordenar(repetir(posiciones_base, 0, total_cor_dest, total_cor_ref, grid_seg),
            "start, pitch")

----------------------------------------------------------------------------
(* midi_utils.py: generar_notas_mixtas *)

\* str.lower() on the style names
lower ==
    ("" :> "") @@ ("Octavas" :> "octavas") @@
    ("Doble octava" :> "doble octava") @@ ("Decimas" :> "decimas") @@
    ("Treceavas" :> "treceavas")

\* _ajustar_salto without the downward loop
ajustar_salto_sin_bajar(prev_pitch, pitch) ==
    IF prev_pitch = << >> THEN pitch
    ELSE SubirHasta(pitch, prev_pitch[1] - 11)

\* _ajustar_salto; prev_pitch is << >> (None) or << pitch >>
_ajustar_salto(prev_pitch, pitch) ==
    IF prev_pitch = << >> THEN pitch
    ELSE SubirHasta(BajarHasta(pitch, prev_pitch[1] + 11), prev_pitch[1] - 11)

\* mapa: the (1-based) index of the assignment that owns a slot, 0 if none
mapa_de(asignaciones, corchea) ==
    LET duenos == { i \in 1..Len(asignaciones) :
                      corchea \in Rango(asignaciones[i].indices) }
    IN  IF duenos = {} THEN 0 ELSE MaxDe(duenos)

\* info[idx] for a chord name the parser and the table accept
info_de(nombre) ==
    LET p == parsear_nombre_acorde(nombre)
    IN  [root_pc |-> p.root,
         intervals |-> INTERVALOS_TRADICIONALES[p.suf],
         is_sixth |-> Ultimo(p.suf) = "6" /\ "7" \notin Rango(p.suf),
         is_dim7 |-> p.suf = << "dim", "7" >>,
         suf |-> p.suf]

\* agregada_de pairing the fifth with the chord's fourth tone on every chord
agregada_sin_sexta(base, datos) ==
    LET root_pc == datos.root_pc
        ints == datos.intervals
        clase == base % 12
        f == IF clase = (root_pc + ints[1]) % 12
             THEN [base_int |-> ints[1], target_int |-> ints[2], func |-> "F"]
             ELSE IF clase = (root_pc + ints[2]) % 12
             THEN [base_int |-> ints[2], target_int |-> ints[3], func |-> "3"]
             ELSE IF clase = (root_pc + ints[3]) % 12
             THEN [base_int |-> ints[3],
                   target_int |-> ints[4],
                   func |-> "5"]
             ELSE IF clase = (root_pc + ints[4]) % 12
             THEN IF datos.is_sixth \/ datos.is_dim7
                  THEN [base_int |-> ints[4], target_int |-> ints[1],
                        func |-> "6"]
                  ELSE [base_int |-> ints[4],
                        target_int |-> IF datos.suf = << "7", "(b9)" >>
                                       THEN ints[5] ELSE 2,
                        func |-> "7"]
             ELSE [base_int |-> clase, target_int |-> clase, func |-> "?"]
        diff == (f.target_int - f.base_int)
                    + (IF f.func \in { "6", "7" } THEN 24 ELSE 12)
    IN  [func |-> f.func, agregada |-> base + diff]

\* the classification of a base tone and the added tone (tenths/thirteenths)
agregada_de(base, datos) ==
    LET root_pc == datos.root_pc
        ints == datos.intervals
        clase == base % 12
        f == IF clase = (root_pc + ints[1]) % 12
             THEN [base_int |-> ints[1], target_int |-> ints[2], func |-> "F"]
             ELSE IF clase = (root_pc + ints[2]) % 12
             THEN [base_int |-> ints[2], target_int |-> ints[3], func |-> "3"]
             ELSE IF clase = (root_pc + ints[3]) % 12
             THEN [base_int |-> ints[3],
                   target_int |-> IF datos.is_sixth THEN 11 ELSE ints[4],
                   func |-> "5"]
             ELSE IF clase = (root_pc + ints[4]) % 12
             THEN IF datos.is_sixth \/ datos.is_dim7
                  THEN [base_int |-> ints[4], target_int |-> ints[1],
                        func |-> "6"]
                  ELSE [base_int |-> ints[4],
                        target_int |-> IF datos.suf = << "7", "(b9)" >>
                                       THEN ints[5] ELSE 2,
                        func |-> "7"]
             ELSE [base_int |-> clase, target_int |-> clase, func |-> "?"]
        diff == (f.target_int - f.base_int)
                    + (IF f.func \in { "6", "7" } THEN 24 ELSE 12)
    IN  [func |-> f.func, agregada |-> base + diff]

\* notas_de taking the tone at the chord's note counter in every style
notas_de_por_paso(pos, voicing, paso, arm, datos) ==
    IF arm \in { "decimas", "treceavas" }
    THEN LET base == voicing[(paso % 4) + 1]
             agregada == agregada_de(base, datos).agregada
         IN  IF arm = "decimas" THEN << base, agregada >>
             ELSE << base + 12, agregada - 24 >>
    ELSE LET base_pitch == voicing[(paso % 4) + 1]
         IN  IF arm = "octavas" THEN << base_pitch, base_pitch + 12 >>
             ELSE IF arm = "doble octava"
             THEN IF base_pitch > 0
                  THEN << base_pitch - 12, base_pitch + 12 >> ELSE << >>
             ELSE << base_pitch >>

\* the pitches emitted for one replayed note, before the continuity offset
notas_de(pos, voicing, paso, arm, datos) ==
    IF arm \in { "decimas", "treceavas" }
    THEN LET base == voicing[(paso % 4) + 1]
             agregada == agregada_de(base, datos).agregada
         IN  IF arm = "decimas" THEN << base, agregada >>
             ELSE << base + 12, agregada - 24 >>
    ELSE LET orden == index(NOTAS_BASE, pos.pitch)
             base_pitch == voicing[orden + 1]
         IN  IF arm = "octavas" THEN << base_pitch, base_pitch + 12 >>
             ELSE IF arm = "doble octava"
             THEN IF base_pitch > 0
                  THEN << base_pitch - 12, base_pitch + 12 >> ELSE << >>
             ELSE << base_pitch >>

\* iteracion_mixta applying the continuity offset to the first note of a
\* chord only
iteracion_mixta_sin_memoria(pos, acc, voicings_, asignaciones, grid_seg) ==
    LET corchea == round_div(pos.start, grid_seg)
        idx == mapa_de(asignaciones, corchea)
    IN  IF idx = 0 THEN acc
        ELSE
            LET arm == lower[asignaciones[idx].arm]
                paso == acc.contadores[idx]
                voicing == sorted(voicings_[idx])
                notas == notas_de(pos, voicing, paso, arm,
                                  info_de(asignaciones[idx].nombre))
                bajo == MinDe(Rango(notas))
                ajustado == _ajustar_salto(acc.bajo_anterior, bajo)
                offset == IF paso = 0 /\ arm # acc.arm_anterior
                          THEN ajustado - bajo
                          ELSE 0
                emitidas == [ j \in 1..Len(notas) |->
                                [pitch |-> notas[j] + offset,
                                 start |-> pos.start, end |-> pos.end,
                                 velocity |-> pos.velocity] ]
            IN  [contadores |-> [acc.contadores EXCEPT ![idx] = paso + 1],
                 offsets |-> [acc.offsets EXCEPT ![idx] = offset],
                 bajo_anterior |-> IF paso = 0 THEN << bajo + offset >>
                                   ELSE acc.bajo_anterior,
                 arm_anterior |-> IF paso = 0 THEN arm
                                  ELSE acc.arm_anterior,
                 resultado |-> acc.resultado \o emitidas]

\* iteracion_mixta taking the adjusted bass itself as the continuity offset
iteracion_mixta_sin_restar(pos, acc, voicings_, asignaciones, grid_seg) ==
    LET corchea == round_div(pos.start, grid_seg)
        idx == mapa_de(asignaciones, corchea)
    IN  IF idx = 0 THEN acc
        ELSE
            LET arm == lower[asignaciones[idx].arm]
                paso == acc.contadores[idx]
                voicing == sorted(voicings_[idx])
                notas == notas_de(pos, voicing, paso, arm,
                                  info_de(asignaciones[idx].nombre))
                bajo == MinDe(Rango(notas))
                ajustado == _ajustar_salto(acc.bajo_anterior, bajo)
                offset == IF paso = 0 /\ arm # acc.arm_anterior
                          THEN ajustado
                          ELSE acc.offsets[idx]
                emitidas == [ j \in 1..Len(notas) |->
                                [pitch |-> notas[j] + offset,
                                 start |-> pos.start, end |-> pos.end,
                                 velocity |-> pos.velocity] ]
            IN  [contadores |-> [acc.contadores EXCEPT ![idx] = paso + 1],
                 offsets |-> [acc.offsets EXCEPT ![idx] = offset],
                 bajo_anterior |-> IF paso = 0 THEN << bajo + offset >>
                                   ELSE acc.bajo_anterior,
                 arm_anterior |-> IF paso = 0 THEN arm
                                  ELSE acc.arm_anterior,
                 resultado |-> acc.resultado \o emitidas]

\* one iteration of "for pos in posiciones"; acc holds contadores, offsets,
\* bajo_anterior, arm_anterior and resultado
iteracion_mixta(pos, acc, voicings_, asignaciones, grid_seg) ==
    LET corchea == round_div(pos.start, grid_seg)
        idx == mapa_de(asignaciones, corchea)
    IN  IF idx = 0 THEN acc
        ELSE
            LET arm == lower[asignaciones[idx].arm]
                paso == acc.contadores[idx]
                voicing == sorted(voicings_[idx])
                notas == notas_de(pos, voicing, paso, arm,
                                  info_de(asignaciones[idx].nombre))
                bajo == MinDe(Rango(notas))
                ajustado == _ajustar_salto(acc.bajo_anterior, bajo)
                offset == IF paso = 0 /\ arm # acc.arm_anterior
                          THEN ajustado - bajo
                          ELSE acc.offsets[idx]
                emitidas == [ j \in 1..Len(notas) |->
                                [pitch |-> notas[j] + offset,
                                 start |-> pos.start, end |-> pos.end,
                                 velocity |-> pos.velocity] ]
            IN  [contadores |-> [acc.contadores EXCEPT ![idx] = paso + 1],
                 offsets |-> [acc.offsets EXCEPT ![idx] = offset],
                 bajo_anterior |-> IF paso = 0 THEN << bajo + offset >>
                                   ELSE acc.bajo_anterior,
                 arm_anterior |-> IF paso = 0 THEN arm
                                  ELSE acc.arm_anterior,
                 resultado |-> acc.resultado \o emitidas]

\* the loop over the positions desde..hasta, in order, from the state acc
RECURSIVE mixtas_desde(_, _, _, _, _, _, _)
mixtas_desde(posiciones_, desde, hasta, acc, voicings_, asignaciones, grid_seg) ==
    IF desde > hasta THEN acc
    ELSE IF desde = hasta
    THEN iteracion_mixta(posiciones_[desde], acc, voicings_, asignaciones,
                         grid_seg)
    ELSE LET medio == (desde + hasta) \div 2
             mitad == mixtas_desde(posiciones_, desde, medio, acc, voicings_,
                                   asignaciones, grid_seg)
         IN  \* the first half has run (it only appends to resultado)
             \* before the second half starts from its state
             IF Len(mitad.resultado) >= Len(acc.resultado)
             THEN mixtas_desde(posiciones_, medio + 1, hasta, mitad, voicings_,
                               asignaciones, grid_seg)
             ELSE acc

generar_notas_mixtas(posiciones_, voicings_, asignaciones, grid_seg) ==
    mixtas_desde(posiciones_, 1, Len(posiciones_),
                 [contadores |-> [ i \in 1..Len(asignaciones) |-> 0 ],
                  offsets |-> [ i \in 1..Len(asignaciones) |-> 0 ],
                  bajo_anterior |-> << >>,
                  arm_anterior |-> "None",
                  resultado |-> << >>],
                 voicings_, asignaciones, grid_seg).resultado

----------------------------------------------------------------------------
(* midi_utils.py: overlap resolution, truncation and the length marker *)

\* _cortar_notas_superpuestas without the truncation
cortar_sin_truncar(notas) ==
    LET o == ordenar(notas, "pitch, start")
    IN  ordenar(o, "start, pitch")

\* _cortar_notas_superpuestas
_cortar_notas_superpuestas(notas) ==
    LET o == ordenar(notas, "pitch, start")
        cortadas == [ i \in 1..Len(o) |->
                        IF /\ i < Len(o)
                           /\ o[i + 1].pitch = o[i].pitch
                           /\ o[i].end > o[i + 1].start
                        THEN [o[i] EXCEPT !.end = o[i + 1].start]
                        ELSE o[i] ]
    IN  ordenar(cortadas, "start, pitch")

\* _recortar_notas_a_limite without the shortening
recortar_sin_acortar(notas, limite) ==
    SelectSeq(notas, LAMBDA n : ~(n.start >= limite))

\* _recortar_notas_a_limite
_recortar_notas_a_limite(notas, limite) ==
    LET dentro == SelectSeq(notas, LAMBDA n : ~(n.start >= limite))
    IN  [ i \in 1..Len(dentro) |->
            IF dentro[i].end > limite
            THEN [dentro[i] EXCEPT !.end = limite] ELSE dentro[i] ]

\* the note appended to pin the length of the output
marcador(limite, grid) ==
    IF limite > 0
    THEN << [pitch |-> 0, start |-> IF limite - grid > 0 THEN limite - grid ELSE 0,
             end |-> limite, velocity |-> 1] >>
    ELSE << >>

----------------------------------------------------------------------------
(* montuno_tradicional: voicing generation and export of a run *)

\* a loop iteration of generar_voicings_enlazados_tradicional
GenerarVoicing ==
    /\ pc = "voicings"
    /\ Len(voicings) < Len(progresion)
    /\ LET r == iteracion(progresion[Len(voicings) + 1], bajo_anterior,
                          Len(voicings))
       IN  /\ r.estado = "ok"
           /\ it' = r
           /\ voicings' = Append(voicings, r.voicing)
           /\ bajo_anterior' = r.bajo
    /\ UNCHANGED << pc, corrida, varsConfig, varsSched, progresion,
                    varsRender, salida, error, previas >>

\* parsear_nombre_acorde raises ValueError
AcordeNoReconocido ==
    /\ pc = "voicings"
    /\ Len(voicings) < Len(progresion)
    /\ LET r == iteracion(progresion[Len(voicings) + 1], bajo_anterior,
                          Len(voicings))
       IN  /\ r.estado = "ValueError"
           /\ it' = r
    /\ pc' = "error"
    /\ error' = "ValueError: Acorde no reconocido"
    /\ UNCHANGED << corrida, varsConfig, varsSched, progresion, voicings,
                    bajo_anterior, varsRender, salida, previas >>

\* INTERVALOS_TRADICIONALES[suf] raises KeyError
SufijoSinIntervalos ==
    /\ pc = "voicings"
    /\ Len(voicings) < Len(progresion)
    /\ LET r == iteracion(progresion[Len(voicings) + 1], bajo_anterior,
                          Len(voicings))
       IN  /\ r.estado = "KeyError"
           /\ it' = r
    /\ pc' = "error"
    /\ error' = "KeyError"
    /\ UNCHANGED << corrida, varsConfig, varsSched, progresion, voicings,
                    bajo_anterior, varsRender, salida, previas >>

\* generar_voicings_enlazados_tradicional returns; exportar_montuno is called
RetornarVoicings ==
    /\ pc = "voicings"
    /\ Len(voicings) = Len(progresion)
    /\ pc' = "exportar"
    /\ UNCHANGED << corrida, varsConfig, varsSched, varsVoicings, varsRender,
                    salida, error, previas >>

\* what exportar_montuno reads from the reference file
referencia_de(archivo) ==
    LET notes == leer_midi_referencia(archivo)
    IN  [notes |-> notes,
         posiciones_base |-> obtener_posiciones_referencia(notes),
         total_cor_ref |-> total_cor_de(notes)]

\* exportar_montuno up to the note list handed to the writer
Exportar(Archivos) ==
    /\ pc = "exportar"
    /\ \E archivo \in Archivos :
         LET r == referencia_de(archivo)
             total_dest_cor == num_compases * 8
             limite == total_dest_cor * GRID
         IN  /\ ~(total_dest_cor > 0 /\ r.total_cor_ref = 0)
             /\ ref' = r
             /\ posiciones' =
                    construir_posiciones_secuenciales(
                        r.posiciones_base, total_dest_cor, r.total_cor_ref, GRID)
             /\ notas_generadas' =
                    generar_notas_mixtas(posiciones', voicings, resultado, GRID)
             /\ nuevas_notas' =
                    _recortar_notas_a_limite(
                        _cortar_notas_superpuestas(notas_generadas'), limite)
                        \o marcador(limite, GRID)
    /\ pc' = "escribir"
    /\ UNCHANGED << corrida, varsConfig, varsSched, varsVoicings, salida,
                    error, previas >>

\* dest_idx % total_cor_ref with a reference shorter than half an eighth
ExportarDivisionPorCero(Archivos) ==
    /\ pc = "exportar"
    /\ \E archivo \in Archivos :
         LET r == referencia_de(archivo)
         IN  /\ num_compases * 8 > 0
             /\ r.total_cor_ref = 0
             /\ ref' = r
    /\ pc' = "error"
    /\ error' = "ZeroDivisionError"
    /\ UNCHANGED << corrida, varsConfig, varsSched, varsVoicings, posiciones,
                    notas_generadas, nuevas_notas, salida, previas >>

\* pm_out.write(output_path)
Escribir ==
    /\ pc = "escribir"
    /\ salida' = [escrito |-> TRUE, notas |-> nuevas_notas]
    /\ pc' = "done"
    /\ UNCHANGED << corrida, varsConfig, varsSched, varsVoicings, varsRender,
                    error, previas >>

----------------------------------------------------------------------------
(* Reference files: notes of the first instrument in file order *)

velocidad_de(pitch, start) == 60 + (pitch - 55) + 10 * start

NotasDe(Pitches, Inicios, Duraciones) ==
    { [pitch |-> p, start |-> t, end |-> t + d, velocity |-> velocidad_de(p, t)] :
        p \in Pitches, t \in Inicios, d \in Duraciones }

OrdenArchivo(n) == (n.pitch * 100 + n.start) * 100 + n.end

\* the files with 1..n notes of U in file order
RECURSIVE ArchivosDe(_, _)
ArchivosDe(U, n) ==
    IF n = 0 THEN { }
    ELSE LET menores == ArchivosDe(U, n - 1)
         IN  { << x >> : x \in U } \cup menores \cup
             UNION { { << x >> \o a :
                         a \in { b \in menores :
                                   OrdenArchivo(x) < OrdenArchivo(b[1]) } } :
                     x \in U }

----------------------------------------------------------------------------
(* The render of accepted progressions over all reference files of at most  *)
(* MaxNotasRef notes                                                        *)

MaxNotasRef == 2

\* 62 is not one of NOTAS_BASE
PitchesRef == { 55, 64, 62 }
IniciosRef == { 0, 3 }
DuracionesRef == { 1, 3, 20 }

ArchivosRender ==
    ArchivosDe(NotasDe(PitchesRef, IniciosRef, DuracionesRef), MaxNotasRef)

TextosRender ==
    { << "C", "7" >>,
      << "(10)", "C", "7", ESPACIO, BARRA, ESPACIO,
         "(13)", "F", "maj", ESPACIO, "G", "7" >>,
      << "(15)", ESPACIO, BARRA, ESPACIO, "A", "m", "7", ESPACIO, "(8)",
         "D", "7", "(b9)" >> }

EntradasRender ==
    [texto : TextosRender,
     armonizacion : { "", "Octavas" },
     clave : DOMAIN CLAVES]

IniciarRender == Iniciar(EntradasRender, 1)

ExportarRender == Exportar(ArchivosRender)

ExportarDivisionPorCeroRender == ExportarDivisionPorCero(ArchivosRender)

NextRender ==
    \/ IniciarRender
    \/ SegUnAcorde
    \/ SegDosAcordes
    \/ SegSinAcordes
    \/ RetornarSched
    \/ GenerarVoicing
    \/ RetornarVoicings
    \/ ExportarRender
    \/ ExportarDivisionPorCeroRender
    \/ Escribir

SpecRender == Init /\ [][NextRender]_vars

----------------------------------------------------------------------------
(* Claims about the rendered note list *)

\* the ticks of the half-open interval [start, end) of a note
Intervalo(n) == { t \in n.start..(n.end - 1) : TRUE }

\* two distinct notes of the list with the same pitch sound at the same tick
Solapadas(notas) ==
    \E i, j \in 1..Len(notas) :
        /\ i # j
        /\ notas[i].pitch = notas[j].pitch
        /\ Intervalo(notas[i]) \cap Intervalo(notas[j]) # { }

\* the destination length in ticks
Limite == num_compases * 8 * GRID

\* the styles of the assignments of the run
Estilos == { resultado[i].arm : i \in 1..Len(resultado) }

\* C5: in the note list that exportar_montuno builds (after
\* _cortar_notas_superpuestas and _recortar_notas_a_limite), any two distinct
\* notes with the same pitch have disjoint half-open intervals [start, end),
\* whatever the reference file, the progression and the styles.
C5_SinSolapes ==
    /\ pc \in { "escribir", "done" } => ~Solapadas(nuevas_notas)
    /\ salida.escrito => ~Solapadas(salida.notas)

C5_Testigo ==
    /\ pc = "done"
    /\ Solapadas(notas_generadas)
    /\ Cardinality(Estilos) > 1
    /\ Len(salida.notas) > 4

C10_SinBaseFalla ==
    ((pc \in { "escribir", "done" } \/ error = "ZeroDivisionError")
        /\ ref.posiciones_base = << >>) =>
        /\ pc = "error"
        /\ error = "NoReferencePositionsError"
        /\ ~salida.escrito

----------------------------------------------------------------------------
(* The whole pipeline over all texts of at most MaxPalabras words, failing  *)
(* runs included                                                            *)

MaxPalabras == 5

Palabras ==
    { << "C", "7" >>, << "C", "m" >>, << "H" >>, << BARRA >>, << ESPACIO >>,
      << "(10)" >> }

Entradas ==
    [texto : TextosDe(Palabras, MaxPalabras),
     armonizacion : { "" },
     clave : { "Clave 2-3" }]

\* a reference of two eighths and one shorter than half an eighth
Archivos == ArchivosDe(NotasDe({ 55 }, { 0 }, { 1, 3 }), 1)

IniciarPipeline == Iniciar(Entradas, 1)

ExportarPipeline == Exportar(Archivos)

ExportarDivisionPorCeroPipeline == ExportarDivisionPorCero(Archivos)

Next ==
    \/ IniciarPipeline
    \/ SegUnAcorde
    \/ SegDosAcordes
    \/ SegSinAcordes
    \/ SegMalformado
    \/ RetornarSched
    \/ GenerarVoicing
    \/ AcordeNoReconocido
    \/ SufijoSinIntervalos
    \/ RetornarVoicings
    \/ ExportarPipeline
    \/ ExportarDivisionPorCeroPipeline
    \/ Escribir

Spec == Init /\ [][Next]_vars

\* the chord entries of the segments of a text
AcordesDeSegmentos(texto) ==
    LET segs == segmentos_de(texto)
    IN  [ i \in 1..Len(segs) |-> acordes_de(tokens_de(segs[i]), "").acordes ]

\* some chord symbol of the text is rejected by the parser
Rechazado(texto) ==
    LET a == AcordesDeSegmentos(texto)
    IN  \E i \in 1..Len(a) : \E k \in 1..Len(a[i]) :
            ~parsear_nombre_acorde(a[i][k].nombre).ok

\* some segment of the text is rejected by the scheduler
Malformado(texto) ==
    LET a == AcordesDeSegmentos(texto)
    IN  \E i \in 1..Len(a) : Len(a[i]) > 2

\* C9: the output file is written only after scheduling, the voicings of all
\* chords and the render have completed without error; a run that failed has
\* written nothing, and a run whose text holds a chord symbol the parser
\* rejects or a segment the scheduler rejects never reaches the writer.
C9_EscrituraAlFinal ==
    /\ salida.escrito =>
          /\ pc = "done"
          /\ error = "none"
          /\ segmentos = << >>
          /\ Len(voicings) = Len(resultado)
          /\ salida.notas = nuevas_notas
    /\ pc = "error" => (error # "none" /\ ~salida.escrito)
    /\ (Rechazado(entrada.texto) \/ Malformado(entrada.texto)) =>
          (pc \in { "sched", "voicings", "error" } /\ ~salida.escrito)

C9_Testigo ==
    /\ pc = "error"
    /\ error = "ValueError: Acorde no reconocido"
    /\ Len(voicings) > 0
    /\ Rechazado(entrada.texto)
    /\ ~salida.escrito

----------------------------------------------------------------------------
(* Successive runs of the pipeline in one process *)

MaxCorridas == 3

TextosCorridas ==
    { << "C", "7", ESPACIO, BARRA, ESPACIO, "(10)", "F", "7", ESPACIO,
         "G", "7" >>,
      << "(8)", "A", "m", "7" >>,
      << "F", "m" >>,
      << "C", "7", ESPACIO, "C", "7", ESPACIO, "C", "7" >> }

EntradasCorridas ==
    [texto : TextosCorridas,
     armonizacion : { "" },
     clave : DOMAIN CLAVES]

IniciarCorridas == Iniciar(EntradasCorridas, MaxCorridas)

\* one reference of two eighths: a baseline note and a later, higher one
ArchivosCorridas ==
    { << [pitch |-> 55, start |-> 0, end |-> 3,
          velocity |-> velocidad_de(55, 0)],
         [pitch |-> 64, start |-> 2, end |-> 3,
          velocity |-> velocidad_de(64, 2)] >> }

ExportarCorridas == Exportar(ArchivosCorridas)

NextCorridas ==
    \/ IniciarCorridas
    \/ SegUnAcorde
    \/ SegDosAcordes
    \/ SegMalformado
    \/ RetornarSched
    \/ GenerarVoicing
    \/ SufijoSinIntervalos
    \/ RetornarVoicings
    \/ ExportarCorridas
    \/ Escribir

SpecCorridas == Init /\ [][NextCorridas]_vars

\* the finished runs so far, the current one included once it has ended
Corridas ==
    IF pc \in { "done", "error" } THEN Append(previas, ResumenCorrida)
    ELSE previas

\* C7: two runs with the same text, default style, pattern pair and
\* reference notes yield the same assignments, voicings and written notes,
\* whatever ran before them; every run starts the scheduler at pattern index
\* 0, slot 0 and the default style, and the voicing generator at previous
\* bass 55.
C7_CorridasIndependientes ==
    /\ \A i, j \in 1..Len(Corridas) :
          (/\ Corridas[i].entrada = Corridas[j].entrada
           /\ Corridas[i].referencia = Corridas[j].referencia) =>
              Corridas[i] = Corridas[j]
    /\ (pc = "sched" /\ paso_sched = PasoNulo) =>
          /\ indice_patron = 0
          /\ posicion = 0
          /\ resultado = << >>
          /\ arm_actual = capitalize[entrada.armonizacion]
          /\ PRIMER_BLOQUE = CLAVES[entrada.clave].primer_bloque
          /\ PATRON_REPETIDO = CLAVES[entrada.clave].patron_repetido
    /\ (pc = "voicings" /\ voicings = << >>) => bajo_anterior = 55

\* the same input run first, then after a run of another progression
C7_Testigo ==
    /\ pc = "done"
    /\ Len(previas) = 2
    /\ previas[1].entrada = entrada
    /\ previas[1].referencia = ref.notes
    /\ previas[1].salida = salida
    /\ previas[1].voicings = voicings
    /\ previas[2].entrada.texto # entrada.texto
    /\ previas[2].salida.escrito
    /\ Len(salida.notas) > 1

----------------------------------------------------------------------------
(* The scheduler over texts with two kinds of marker, of at most            *)
(* MaxPalabrasEstilo words                                                  *)

MaxPalabrasEstilo == 6

PalabrasEstilo ==
    { << "C" >>, << BARRA >>, << ESPACIO >>, << "(10)" >>, << "(13)" >> }

EntradasEstilo ==
    [texto : TextosDe(PalabrasEstilo, MaxPalabrasEstilo),
     armonizacion : { "octavas" },
     clave : { "Clave 2-3" }]

IniciarEstilo == Iniciar(EntradasEstilo, 1)

NextEstilo ==
    \/ IniciarEstilo
    \/ SegUnAcorde
    \/ SegDosAcordes
    \/ SegSinAcordes
    \/ SegMalformado
    \/ RetornarSched

SpecEstilo == Init /\ [][NextEstilo]_vars

RECURSIVE Aplanar(_)
Aplanar(listas) ==
    IF listas = << >> THEN << >> ELSE Head(listas) \o Aplanar(Tail(listas))

\* the tokens of a text in text order, bar delimiters ignored
TokensDelTexto(texto) ==
    LET segs == segmentos_de(texto)
    IN  Aplanar([ i \in 1..Len(segs) |-> tokens_de(segs[i]) ])

EmpiezaConMarcador(token) == Head(token) \in DOMAIN arm_map

\* the style of the last marker at or before token j, else the default
EstiloEn(tokens, j, defecto) ==
    LET marcados == { i \in 1..j : EmpiezaConMarcador(tokens[i]) }
    IN  IF marcados = { } THEN defecto
        ELSE arm_map[Head(tokens[MaxDe(marcados)])]

\* the chord entries a text should give: one per token that is not a bare
\* marker, each with the style in force at its token
EntradasEsperadas(texto, defecto) ==
    LET tokens == TokensDelTexto(texto)
        con_acorde == SelectSeq([ j \in 1..Len(tokens) |-> j ],
                          LAMBDA j : ~(EmpiezaConMarcador(tokens[j])
                                          /\ Len(tokens[j]) = 1))
    IN  [ k \in 1..Len(con_acorde) |->
            LET j == con_acorde[k]
            IN  [nombre |-> IF EmpiezaConMarcador(tokens[j])
                            THEN Tail(tokens[j]) ELSE tokens[j],
                 arm |-> EstiloEn(tokens, j, defecto)] ]

\* C11: each chord entry carries the style of the last marker at or before
\* its token in text order (a marker prefixed to the chord included), or the
\* default style when there is none; a marker does not change entries before
\* it, persists across bar delimiters, and a bare marker adds no entry.
C11_EstiloDelUltimoMarcador ==
    pc \in { "sched", "voicings", "error" } =>
        LET esperadas == EntradasEsperadas(entrada.texto,
                                           capitalize[entrada.armonizacion])
            n == Len(resultado)
        IN  /\ n <= Len(esperadas)
            /\ \A k \in 1..n :
                  /\ resultado[k].nombre = esperadas[k].nombre
                  /\ resultado[k].arm = esperadas[k].arm
            /\ pc = "voicings" => n = Len(esperadas)

C11_Testigo ==
    /\ pc = "voicings"
    /\ Len(segmentos_de(entrada.texto)) = 2
    /\ Len(TokensDelTexto(entrada.texto)) = 3
    /\ Len(resultado) = 2
    /\ resultado[1].arm = "Octavas"
    /\ resultado[2].arm = "Treceavas"
    /\ TokensDelTexto(entrada.texto)[2] = << "(10)" >>

----------------------------------------------------------------------------
(* The render of styled progressions: every chord of the table in tenths    *)
(* and thirteenths, and every sequence of at most MaxAcordesArmonia styled  *)
(* chords, over three reference files                                       *)

MaxAcordesArmonia == 2

MarcadoresArmonia ==
    { << >>, << "(8)" >>, << "(15)" >>, << "(10)" >>, << "(13)" >> }

AcordesArmonia == { << "C", "7" >>, << "A", "m", "6" >> }

EstiladosArmonia == { m \o a : m \in MarcadoresArmonia, a \in AcordesArmonia }

\* the progressions of exactly n styled chords, two chords to a bar
RECURSIVE ProgresionDe(_)
ProgresionDe(n) ==
    IF n = 1 THEN EstiladosArmonia
    ELSE LET sep == IF n % 2 = 0 THEN << ESPACIO >>
                    ELSE << ESPACIO, BARRA, ESPACIO >>
         IN  { t \o sep \o e : t \in ProgresionDe(n - 1),
                               e \in EstiladosArmonia }

ProgresionesArmonia(n) == UNION { ProgresionDe(k) : k \in 1..n }

TablaArmonia ==
    { m \o r \o suf : m \in { << "(10)" >>, << "(13)" >> },
                       r \in DOMAIN NOTAS,
                       suf \in DOMAIN INTERVALOS_TRADICIONALES }

TextosArmonia == TablaArmonia \cup ProgresionesArmonia(MaxAcordesArmonia)

EntradasArmonia ==
    [texto : TextosArmonia, armonizacion : { "" }, clave : { "Clave 2-3" }]

NotaRef(pitch, start, end) ==
    [pitch |-> pitch, start |-> start, end |-> end,
     velocity |-> velocidad_de(pitch, start)]

\* an arpeggio over four eighths, a descending figure with two simultaneous
\* notes over three eighths, and a single high note repeated on every eighth
ArchivosArmonia ==
    { << NotaRef(55, 0, 2 * GRID), NotaRef(57, GRID, 2 * GRID),
         NotaRef(60, 2 * GRID, 3 * GRID), NotaRef(64, 3 * GRID, 4 * GRID) >>,
      << NotaRef(64, 0, GRID + 1), NotaRef(55, 0, GRID),
         NotaRef(60, GRID, 3 * GRID), NotaRef(57, 2 * GRID, 3 * GRID) >>,
      << NotaRef(64, 0, GRID) >> }

IniciarArmonia == Iniciar(EntradasArmonia, 1)

ExportarArmonia == Exportar(ArchivosArmonia)

NextArmonia ==
    \/ IniciarArmonia
    \/ SegUnAcorde
    \/ SegDosAcordes
    \/ RetornarSched
    \/ GenerarVoicing
    \/ RetornarVoicings
    \/ ExportarArmonia
    \/ Escribir

SpecArmonia == Init /\ [][NextArmonia]_vars

----------------------------------------------------------------------------
(* Pitch substitution, read off the replayed positions and the rendered     *)
(* notes of a finished render                                               *)

Renderizado == pc \in { "escribir", "done" }

\* the slot of a note and the chord entry owning it (0: none)
SlotDe(n) == round_div(n.start, GRID)
DuenoDe(n) == mapa_de(resultado, SlotDe(n))

\* voice-order rank of a baseline pitch: 55->0, 57->1, 60->2, 64->3
RangoDeVoz(pitch) == Cardinality({ b \in { 55, 57, 60, 64 } : b < pitch })

\* the tone of chord c's voicing at the rank of reference pitch `pitch`
TonoSustituido(c, pitch) ==
    LET tonos == Rango(voicings[c])
    IN  CHOOSE v \in tonos :
            Cardinality({ w \in tonos : w < v }) = RangoDeVoz(pitch)

EnEstilo(c, estilos) == c # 0 /\ lower[resultado[c].arm] \in estilos

\* the positions / rendered notes in the slot of note n
PosicionesEnSlot(s) == { i \in 1..Len(posiciones) : SlotDe(posiciones[i]) = s }
GeneradasEnSlot(s) ==
    { k \in 1..Len(notas_generadas) : SlotDe(notas_generadas[k]) = s }

NotaSimple(p, c) ==
    [pitch |-> TonoSustituido(c, p.pitch), start |-> p.start, end |-> p.end,
     velocity |-> p.velocity]

\* C12: in the default style every replayed note in a slot owned by chord c
\* gives exactly one rendered note, the tone of c's ascending voicing at the
\* rank of the note's baseline pitch, with the replayed start, end and
\* velocity; a replayed note in a slot owned by no chord gives none.
C12_SustitucionSimple ==
    Renderizado =>
        \A i \in 1..Len(posiciones) :
            LET p == posiciones[i]
                c == DuenoDe(p)
            IN  /\ c = 0 => GeneradasEnSlot(SlotDe(p)) = { }
                /\ EnEstilo(c, { "" }) =>
                      /\ Cardinality(GeneradasEnSlot(SlotDe(p)))
                            = Cardinality(PosicionesEnSlot(SlotDe(p)))
                      /\ Cardinality({ k \in 1..Len(notas_generadas) :
                                         notas_generadas[k] = NotaSimple(p, c) })
                            = Cardinality({ j \in 1..Len(posiciones) :
                                  /\ DuenoDe(posiciones[j]) = c
                                  /\ NotaSimple(posiciones[j], c)
                                        = NotaSimple(p, c) })

C12_Testigo ==
    /\ Renderizado
    /\ \E i, j, l \in 1..Len(posiciones) :
          /\ EnEstilo(DuenoDe(posiciones[i]), { "" })
          /\ posiciones[i].pitch = 64
          /\ EnEstilo(DuenoDe(posiciones[j]), { "" })
          /\ posiciones[j].pitch = 55
          /\ DuenoDe(posiciones[l]) = 0

\* the number of replayed notes of the same chord before position i
PasoDePosicion(i) ==
    Cardinality({ j \in 1..(i - 1) :
                    DuenoDe(posiciones[j]) = DuenoDe(posiciones[i]) })

\* the pitches generar_notas_mixtas derives for position i (owned by a
\* chord), before the continuity offset
NotasDePosicion(i) ==
    LET c == DuenoDe(posiciones[i])
    IN  notas_de(posiciones[i], sorted(voicings[c]), PasoDePosicion(i),
                 lower[resultado[c].arm], info_de(resultado[c].nombre))

\* the base tone of position i in the tenths and thirteenths styles
BaseDePosicion(i) ==
    IF lower[resultado[DuenoDe(posiciones[i])].arm] = "decimas"
    THEN NotasDePosicion(i)[1]
    ELSE NotasDePosicion(i)[1] - 12

\* C13: in the tenths and thirteenths styles the base tone derived from a
\* replayed note is the tone of the owning chord's voicing at the rank of
\* the note's baseline pitch, whatever the number of notes already rendered
\* for that chord.
C13_BaseEsTonoSustituido ==
    Renderizado =>
        \A i \in 1..Len(posiciones) :
            EnEstilo(DuenoDe(posiciones[i]), { "decimas", "treceavas" }) =>
                BaseDePosicion(i)
                    = TonoSustituido(DuenoDe(posiciones[i]), posiciones[i].pitch)

\* the suffix, root pitch class and intervals of chord entry c
SufijoDe(c) == parsear_nombre_acorde(resultado[c].nombre).suf
RaizDe(c) == parsear_nombre_acorde(resultado[c].nombre).root
IntervalosDe(c) == INTERVALOS_TRADICIONALES[SufijoDe(c)]

EsDeSexta(c) == SufijoDe(c) \in { << "6" >>, << "m", "6" >> }
EsDisminuidoSiete(c) == SufijoDe(c) = << "dim", "7" >>

\* the function of tone b in chord c: 1 root, 2 third, 3 fifth, 4 sixth or
\* seventh-equivalent, 0 when b is none of them
FuncionDe(b, c) ==
    LET ks == { k \in 1..4 : (b - RaizDe(c)) % 12 = IntervalosDe(c)[k] % 12 }
    IN  IF ks = { } THEN 0 ELSE MinDe(ks)

\* the interval above the root of the function paired with function k
IntervaloPareado(k, c) ==
    CASE k = 1 -> IntervalosDe(c)[2]
      [] k = 2 -> IntervalosDe(c)[3]
      [] k = 3 -> IF EsDeSexta(c) THEN 11 ELSE IntervalosDe(c)[4]
      [] k = 4 -> IF EsDeSexta(c) \/ EsDisminuidoSiete(c) THEN 0
                  ELSE IF SufijoDe(c) = << "7", "(b9)" >> THEN 1 ELSE 2

\* two rendered notes with the times and velocity of position p whose
\* pitches are those of `par` shifted by one and the same number of octaves
RenderizadoComoPar(p, par) ==
    \E k \in 1..(Len(notas_generadas) - 1) :
        LET n1 == notas_generadas[k]
            n2 == notas_generadas[k + 1]
        IN  /\ \A n \in { n1, n2 } : /\ n.start = p.start
                                    /\ n.end = p.end
                                    /\ n.velocity = p.velocity
            /\ n1.pitch - par[1] = n2.pitch - par[2]
            /\ (n1.pitch - par[1]) % 12 = 0

\* C14: for a base tone b of a tenths or thirteenths chord the upper tone u
\* lies above b and has the pitch class of the function paired with b's
\* function (root->third, third->fifth, fifth->seventh-equivalent or major
\* seventh on sixth chords, sixth or diminished seventh->root, seventh->
\* ninth, flat on 7(b9) chords); tenths emits exactly (b, u), thirteenths
\* exactly (b + 12, u - 24), before the continuity offset.
C14_ParesFuncionales ==
    Renderizado =>
        \A i \in 1..Len(posiciones) :
            LET c == DuenoDe(posiciones[i])
            IN  EnEstilo(c, { "decimas", "treceavas" }) =>
                  LET notas == NotasDePosicion(i)
                      b == sorted(voicings[c])[(PasoDePosicion(i) % 4) + 1]
                      u == IF lower[resultado[c].arm] = "decimas"
                           THEN notas[2] ELSE notas[2] + 24
                      k == FuncionDe(b, c)
                  IN  /\ Len(notas) = 2
                      /\ k # 0
                      /\ u > b
                      /\ u % 12 = (RaizDe(c) + IntervaloPareado(k, c)) % 12
                      /\ lower[resultado[c].arm] = "decimas"
                            => notas = << b, u >>
                      /\ lower[resultado[c].arm] = "treceavas"
                            => notas = << b + 12, u - 24 >>
                      /\ RenderizadoComoPar(posiciones[i], notas)

C14_Testigo ==
    /\ Renderizado
    /\ \E c \in 1..Len(resultado) :
          /\ EnEstilo(c, { "treceavas" })
          /\ EsDeSexta(c)
          /\ \A k \in 1..4 :
                \E i \in 1..Len(posiciones) :
                    /\ DuenoDe(posiciones[i]) = c
                    /\ FuncionDe(BaseDePosicion(i), c) = k

\* the number of notes in the first i entries of a list of note lists
RECURSIVE LongitudTotal(_, _)
LongitudTotal(listas, i) ==
    IF i = 0 THEN 0 ELSE Len(listas[i]) + LongitudTotal(listas, i - 1)

\* the loop of generar_notas_mixtas retraced over a finished render: per
\* position its owning chord (0: none), the pitches derived for it before
\* the continuity offset, and the notes appended to resultado for it
Trazado ==
    LET n == Len(posiciones)
        duenos == [ i \in 1..n |-> DuenoDe(posiciones[i]) ] \o << >>
        derivadas == [ i \in 1..n |->
                         IF duenos[i] = 0 THEN << >>
                         ELSE NotasDePosicion(i) ] \o << >>
        inicios == [ i \in 1..n |-> LongitudTotal(derivadas, i - 1) ] \o << >>
        emitidas == [ i \in 1..n |->
                        SubSeq(notas_generadas, inicios[i] + 1,
                               inicios[i] + Len(derivadas[i])) ] \o << >>
    IN  [duenos |-> duenos, derivadas |-> derivadas, emitidas |-> emitidas]

\* the chord entries with at least one replayed note
Renderizados(t) == Rango(t.duenos) \ { 0 }

\* the positions of chord c, and the first of them
PosicionesDe(t, c) == { i \in 1..Len(t.duenos) : t.duenos[i] = c }
PrimeraDe(t, c) == MinDe(PosicionesDe(t, c))

\* the lowest pitch emitted at the first note event of chord c
BajoEmitido(t, c) ==
    LET e == t.emitidas[PrimeraDe(t, c)]
    IN  MinDe({ e[k].pitch : k \in 1..Len(e) })

\* the chord rendered before chord c (0: none)
RenderizadoAntes(t, c) ==
    LET antes == { a \in Renderizados(t) : a < c }
    IN  IF antes = { } THEN 0 ELSE MaxDe(antes)

\* the shifts of the rendered notes of chord c against the derived pitches
DesplazamientosDeAcorde(t, c) ==
    UNION { { t.emitidas[i][k].pitch - t.derivadas[i][k] :
                k \in 1..Len(t.derivadas[i]) } : i \in PosicionesDe(t, c) }

\* the notes of the trace carry the times and velocity of their position
TrazadoFiel(t) ==
    /\ LongitudTotal(t.derivadas, Len(t.derivadas)) = Len(notas_generadas)
    /\ \A i \in 1..Len(t.emitidas) :
          \A k \in 1..Len(t.emitidas[i]) :
              /\ t.emitidas[i][k].start = posiciones[i].start
              /\ t.emitidas[i][k].end = posiciones[i].end
              /\ t.emitidas[i][k].velocity = posiciones[i].velocity

\* C15: when a chord's style differs from the style of the chord rendered
\* before it, the lowest pitch emitted at its first note event is fewer than
\* 12 semitones away from the lowest pitch emitted at the previous chord's
\* first note event, the new chord being shifted by whole octaves.
C15_SaltoMenorDeOctava ==
    Renderizado =>
        LET t == Trazado
        IN  /\ TrazadoFiel(t)
            /\ \A c \in Renderizados(t) :
                  LET a == RenderizadoAntes(t, c)
                  IN  (a # 0 /\ lower[resultado[c].arm] # lower[resultado[a].arm])
                        => /\ Abs(BajoEmitido(t, c) - BajoEmitido(t, a)) < 12
                           /\ \E o \in -4..4 :
                                 DesplazamientosDeAcorde(t, c) = { 12 * o }

C15_Testigo ==
    /\ Renderizado
    /\ LET t == Trazado
       IN  \E c \in Renderizados(t) :
             LET a == RenderizadoAntes(t, c)
             IN  /\ a # 0
                 /\ lower[resultado[c].arm] # lower[resultado[a].arm]
                 /\ DesplazamientosDeAcorde(t, c) # { 0 }

----------------------------------------------------------------------------
(* Claims about the segments the scheduler accepts *)

\* the number of chord entries of each segment of a text
ConteosDe(texto) ==
    LET a == AcordesDeSegmentos(texto)
    IN  [ i \in 1..Len(a) |-> Len(a[i]) ] \o << >>

\* the number of segments the loop has gone past
Procesados == Len(segmentos_de(entrada.texto)) - Len(segmentos)

ErrorDeSegmento == "ValueError: Cada segmento debe contener uno o dos acordes"

\* C16 as stated: a progression with a segment whose number of chords is not
\* one or two (zero as well as three or more) fails with the malformed-
\* segment error, so a scheduler that returns has seen only segments of one
\* or two chords.
C16_CeroTambienFalla ==
    pc = "voicings" =>
        \A i \in 1..Len(ConteosDe(entrada.texto)) :
            ConteosDe(entrada.texto)[i] \in { 1, 2 }

\* C16 (amended): the scheduler fails with the malformed-segment error,
\* handing on no assignments, at the first segment with three or more
\* chords, however many segments of at most two chords precede it; a segment
\* with no chord (markers only) is skipped without error and adds no
\* assignment.
C16_TresOMasFalla ==
    LET conteos == ConteosDe(entrada.texto)
    IN  /\ pc = "sched" => \A i \in 1..Procesados : conteos[i] <= 2
        /\ pc = "voicings" => \A i \in 1..Len(conteos) : conteos[i] <= 2
        /\ pc = "error" =>
              /\ error = ErrorDeSegmento
              /\ \A i \in 1..Procesados : conteos[i] <= 2
              /\ conteos[Procesados + 1] > 2
              /\ progresion = << >>
        /\ (pc \in { "sched", "voicings", "error" }
               /\ paso_sched.rama = "cero") =>
              /\ error = "none"
              /\ Len(resultado) = paso_sched.n_antes

C16_Testigo ==
    /\ pc = "error"
    /\ error = ErrorDeSegmento
    /\ paso_sched.formas = << 0, 3 >>
    /\ ConteosDe(entrada.texto) = << 0, 3 >>

----------------------------------------------------------------------------
(* Claims about the length of the output *)

\* the pieces of a text between bar delimiters that hold something other
\* than blanks, counted by the delimiter (or the start) in front of them
BarrasNoBlancas(texto) ==
    LET cortes == { i \in 1..Len(texto) : texto[i] = BARRA }
                      \cup { 0, Len(texto) + 1 }
        siguiente(b) == MinDe({ x \in cortes : x > b })
    IN  Cardinality({ b \in cortes \ { Len(texto) + 1 } :
                        \E i \in (b + 1)..(siguiente(b) - 1) :
                            texto[i] # ESPACIO })

\* the slots assigned to the chords of the run
SlotsAsignados == UNION { Rango(resultado[i].indices) : i \in 1..Len(resultado) }

\* the slots of the reference notes that are replayed
SlotsDeReferencia == { SlotDe(ref.posiciones_base[i]) :
                         i \in 1..Len(ref.posiciones_base) }

\* C17: bar_count is the number of non-blank segments of the text between
\* bar delimiters (a segment holding only a marker included), and the render
\* uses bar_count * 8 destination slots whatever slots the chords were
\* assigned.
C17_CompasesYLongitud ==
    /\ pc # "idle" => num_compases = BarrasNoBlancas(entrada.texto)
    /\ Renderizado =>
          LET total == BarrasNoBlancas(entrada.texto) * 8
          IN  /\ { SlotDe(posiciones[i]) : i \in 1..Len(posiciones) }
                    = { k \in 0..(total - 1) :
                          k % ref.total_cor_ref \in SlotsDeReferencia }
              /\ total > 0 =>
                    /\ Ultimo(nuevas_notas).pitch = 0
                    /\ Ultimo(nuevas_notas).end = total * GRID

C17_Testigo ==
    /\ Renderizado
    /\ BarrasNoBlancas(entrada.texto) = 2
    /\ Len(ConteosDe(entrada.texto)) = 2
    /\ 0 \in Rango(ConteosDe(entrada.texto))
    /\ Cardinality(SlotsAsignados) = 7
    /\ \E i \in 1..Len(posiciones) : SlotDe(posiciones[i]) > 7

----------------------------------------------------------------------------
(* The voicing generator inside a run, over every chord of the table alone  *)
(* and after a first chord of each root                                     *)

RaicesEnlace ==
    { << "C" >>, << "C", "#" >>, << "D" >>, << "E", "b" >>, << "E" >>,
      << "F" >>, << "F", "#" >>, << "G" >>, << "A", "b" >>, << "A" >>,
      << "B", "b" >>, << "B" >> }

PrimerosEnlace ==
    { r \o suf : r \in RaicesEnlace, suf \in { << "7" >>, << "maj" >> } }

SegundosEnlace ==
    { r \o suf : r \in RaicesEnlace, suf \in DOMAIN INTERVALOS_TRADICIONALES }

TextosEnlace ==
    SegundosEnlace \cup
    { x \o << ESPACIO >> \o y : x \in PrimerosEnlace, y \in SegundosEnlace }

EntradasEnlace ==
    [texto : TextosEnlace, armonizacion : { "" }, clave : { "Clave 2-3" }]

IniciarEnlace == Iniciar(EntradasEnlace, 1)

NextEnlace ==
    \/ IniciarEnlace
    \/ SegUnAcorde
    \/ SegDosAcordes
    \/ RetornarSched
    \/ GenerarVoicing
    \/ RetornarVoicings

SpecEnlace == Init /\ [][NextEnlace]_vars

\* the pitch classes of the first four intervals of a chord name
ClasesDe(nombre) ==
    LET p == parsear_nombre_acorde(nombre)
    IN  [ k \in 1..4 |-> (p.root + INTERVALOS_TRADICIONALES[p.suf][k]) % 12 ]

\* C18: the voicing generator returns one voicing per input chord, in input
\* order, each of exactly 4 distinct pitches in ascending order with the
\* three non-bass tones strictly above the bass, also for the chords with
\* five intervals (the b9 chords).
C18_UnVoicingPorAcorde ==
    pc \in { "voicings", "exportar" } =>
        /\ Len(voicings) <= Len(progresion)
        /\ pc = "exportar" => Len(voicings) = Len(progresion)
        /\ \A i \in 1..Len(voicings) :
              LET v == voicings[i]
                  clases == ClasesDe(progresion[i])
              IN  /\ Len(v) = 4
                  /\ \A k \in 1..3 : v[k] < v[k + 1]
                  /\ { v[k] % 12 : k \in 1..4 } = Rango(clases)
                  /\ v[1] % 12 \in { clases[3], clases[4] }
        /\ (it.estado = "ok" /\ voicings # << >>) =>
              /\ it.voicing = Ultimo(voicings)
              /\ it.nombre = progresion[Len(voicings)]
              /\ it.bajo = Ultimo(voicings)[1]
              /\ \A k \in 2..4 : Ultimo(voicings)[k] > it.bajo

C18_Testigo ==
    /\ pc = "exportar"
    /\ Len(progresion) = 2
    /\ Len(voicings) = 2
    /\ Len(INTERVALOS_TRADICIONALES[parsear_nombre_acorde(progresion[2]).suf]) = 5
    /\ voicings[1] # voicings[2]

----------------------------------------------------------------------------
(* Claims about the sequential replay of the reference *)

\* the baseline notes of the reference file
NotasBaseDeReferencia ==
    { ref.notes[i] : i \in { j \in 1..Len(ref.notes) :
                                ref.notes[j].pitch \in { 55, 57, 60, 64 } } }

\* what destination slot k holds: the baseline notes of reference slot
\* k mod span, moved by the distance between the two slots
ColocadasEn(k) ==
    { [pitch |-> n.pitch,
       start |-> n.start + (k - SlotDe(n)) * GRID,
       end |-> n.end + (k - SlotDe(n)) * GRID,
       velocity |-> n.velocity] :
        n \in { m \in NotasBaseDeReferencia :
                  SlotDe(m) = k % ref.total_cor_ref } }

\* C19: for every destination slot k the notes placed in it are exactly the
\* reference baseline notes whose slot index is k mod reference_span, each
\* with start and end shifted by (k - its reference slot) * grid (offset
\* inside the slot and duration unchanged) and its velocity unchanged.
C19_RepeticionSecuencial ==
    Renderizado =>
        LET destinos == 0..(num_compases * 8 - 1)
            colocadas == UNION { ColocadasEn(k) : k \in destinos }
        IN  /\ Rango(posiciones) = colocadas
            /\ Len(posiciones)
                  = Cardinality({ << k, n >> \in
                                     destinos \X NotasBaseDeReferencia :
                                     SlotDe(n) = k % ref.total_cor_ref })

C19_Testigo ==
    /\ Renderizado
    /\ num_compases * 8 > ref.total_cor_ref
    /\ \E n \in NotasBaseDeReferencia :
          /\ SlotDe(n) < ref.total_cor_ref
          /\ n.start % GRID # 0
    /\ \E n \in Rango(ref.notes) : n \notin NotasBaseDeReferencia

----------------------------------------------------------------------------
(* Claims about the octave styles *)

\* the pitches of the notes rendered for position i
PitchesEmitidos(t, i) ==
    [ k \in 1..Len(t.emitidas[i]) |-> t.emitidas[i][k].pitch ]

\* the pitches an octave style gives for tone `tono`, moved by `o` semitones
ParDeOctavas(arm, tono, o) ==
    IF arm = "octavas" THEN << tono + o, tono + 12 + o >>
    ELSE << tono - 12 + o, tono + 12 + o >>

\* C20 as stated: every replayed note of a chord in octave-doubling style
\* is rendered as the substituted tone and that tone plus 12, and in
\* double-octave style as the substituted tone minus 12 and plus 12 with no
\* note at the tone's own pitch, wherever the style is selected.
C20_OctavasSinDesplazar ==
    Renderizado =>
        LET t == Trazado
        IN  \A i \in 1..Len(posiciones) :
              LET c == t.duenos[i]
                  tono == TonoSustituido(c, posiciones[i].pitch)
              IN  EnEstilo(c, { "octavas", "doble octava" }) =>
                    /\ PitchesEmitidos(t, i)
                          = ParDeOctavas(lower[resultado[c].arm], tono, 0)
                    /\ lower[resultado[c].arm] = "doble octava"
                          => tono \notin Rango(PitchesEmitidos(t, i))

\* C20 (amended): the rendered pitches of a replayed note are the
\* substituted tone and that tone plus 12 (octave doubling), or the tone
\* minus 12 and plus 12 (double octave), all moved by the chord's continuity
\* offset: one whole number of octaves per chord, which is 0 when the chord
\* is the first one rendered or has the style of the chord rendered before.
C20_OctavasConDesplazamiento ==
    Renderizado =>
        LET t == Trazado
        IN  /\ TrazadoFiel(t)
            /\ \A c \in Renderizados(t) :
                  EnEstilo(c, { "octavas", "doble octava" }) =>
                    \E o \in -4..4 :
                      /\ \A i \in PosicionesDe(t, c) :
                            PitchesEmitidos(t, i)
                              = ParDeOctavas(lower[resultado[c].arm],
                                    TonoSustituido(c, posiciones[i].pitch),
                                    12 * o)
                      /\ LET a == RenderizadoAntes(t, c)
                         IN  (a = 0 \/ lower[resultado[a].arm]
                                          = lower[resultado[c].arm]) => o = 0

C20_Testigo ==
    /\ Renderizado
    /\ LET t == Trazado
       IN  \E c \in Renderizados(t) :
             /\ EnEstilo(c, { "doble octava" })
             /\ RenderizadoAntes(t, c) # 0
             /\ DesplazamientosDeAcorde(t, c) = { 12 }
             /\ \E i \in PosicionesDe(t, c) :
                   TonoSustituido(c, posiciones[i].pitch)
                       \in Rango(PitchesEmitidos(t, i))

----------------------------------------------------------------------------
(* Claims about the pattern generator *)

MaxIndicePatron == 16

\* the lead-in once, followed by the repeated pattern until more than n
\* values are written out
RECURSIVE Desplegar(_, _, _)
Desplegar(escritos, patron_repetido, n) ==
    IF Len(escritos) > n THEN escritos
    ELSE Desplegar(escritos \o patron_repetido, patron_repetido, n)

PatronDesplegado(clave, n) ==
    Desplegar(CLAVES[clave].primer_bloque, CLAVES[clave].patron_repetido, n)

RECURSIVE SumaDe(_, _)
SumaDe(valores, n) == IF n = 0 THEN 0 ELSE SumaDe(valores, n - 1) + valores[n]

\* C21: _siguiente_grupo(i) is defined for every index i >= 0 and depends
\* only on i and the configured pattern pair: the lead-in value for i inside
\* the lead-in, else the repeated pattern at (i - len(lead-in)) modulo its
\* length; the lead-in is used once and the repeated pattern goes on forever.
C21_PatronPorIndice ==
    pc \in { "sched", "voicings" } =>
        LET patron == PatronDesplegado(entrada.clave,
                                       MaxIndicePatron + 4) \o << >>
            n == Len(resultado)
        IN  /\ \A i \in 0..MaxIndicePatron :
                  /\ _siguiente_grupo(i) = patron[i + 1]
                  /\ i >= 4 => _siguiente_grupo(i + 4) = _siguiente_grupo(i)
            /\ posicion = SumaDe(patron, indice_patron)
            /\ paso_sched.rama = "dos" =>
                  /\ Len(resultado[n - 1].indices)
                        = patron[paso_sched.indice_antes + 1]
                  /\ Len(resultado[n].indices)
                        = patron[paso_sched.indice_antes + 2]
            /\ paso_sched.rama = "uno" =>
                  Len(resultado[n].indices)
                      = patron[paso_sched.indice_antes + 1]
                          + patron[paso_sched.indice_antes + 2]

C21_Testigo ==
    /\ pc = "voicings"
    /\ entrada.clave = "Clave 3-2"
    /\ indice_patron = 8
    /\ posicion = 31
    /\ paso_sched.indice_antes = 6
    /\ _siguiente_grupo(4) = 4
    /\ _siguiente_grupo(12) = 4

----------------------------------------------------------------------------
(* Claims about the range of the voicings *)

\* C22: every pitch of every voicing the generator builds, bass and upper
\* tones alike, lies within RANGO_MIN..RANGO_MAX.
C22_VoicingsEnRango ==
    pc \in { "voicings", "exportar" } =>
        \A i \in 1..Len(voicings) :
            \A k \in 1..Len(voicings[i]) :
                voicings[i][k] \in RANGO_MIN..RANGO_MAX

\* C23: for every tone of a voicing taken as base, the tenths style places
\* the added tone exactly 15 or 16 semitones above the base tone, and the
\* thirteenths style places the lower tone exactly 20 or 21 semitones below
\* the raised principal tone.
C23_DecimasYTreceavasExactas ==
    Renderizado =>
        \A i \in 1..Len(posiciones) :
            LET c == DuenoDe(posiciones[i])
            IN  /\ EnEstilo(c, { "decimas" }) =>
                      NotasDePosicion(i)[2] - NotasDePosicion(i)[1]
                          \in { 15, 16 }
                /\ EnEstilo(c, { "treceavas" }) =>
                      NotasDePosicion(i)[1] - NotasDePosicion(i)[2]
                          \in { 20, 21 }

----------------------------------------------------------------------------
(* Claims about the schedule and the destination length *)

\* C24: for both pattern pairs, every slot index assigned to a chord is
\* strictly less than bar_count * 8, the number of destination slots, so the
\* truncation at the destination length removes no slot a chord owns; after
\* each segment the slots consumed are at most 8 per segment processed.
C24_IndicesBajoElLimite ==
    pc \in { "sched", "voicings" } =>
        /\ \A i \in 1..Len(resultado) :
              \A k \in 1..Len(resultado[i].indices) :
                  /\ resultado[i].indices[k] >= 0
                  /\ resultado[i].indices[k] < num_compases * 8
        /\ posicion <= 8 * Len(paso_sched.formas)
        /\ Len(paso_sched.formas) + Len(segmentos) = num_compases

C24_Testigo ==
    /\ pc = "sched"
    /\ segmentos = << >>
    /\ entrada.clave = "Clave 2-3"
    /\ num_compases = 3
    /\ posicion = 23
    /\ \E i \in 1..Len(resultado) : 22 \in Rango(resultado[i].indices)

\* C25: for every reference baseline note and every destination slot d into
\* which it is replayed, the slot index recomputed from the replayed start
\* as round(start / grid), halves rounded to even, equals d.
C25_SlotRecalculado ==
    Renderizado =>
        \A d \in 0..(num_compases * 8 - 1) :
            \A p \in ColocadasEn(d) :
                /\ p \in Rango(posiciones)
                /\ SlotDe(p) = d

----------------------------------------------------------------------------
(* Claims about the pitches of the rendered notes *)

\* The render of every table chord in tenths and thirteenths after a first
\* chord of another style, besides the styled progressions
PrimerosMixtos ==
    { << "(8)", "G", "7" >>, << "(15)", "C", "7" >>, << "D", "m", "7" >>,
      << "(13)", "B", "b", "maj" >> }

ParesMixtos ==
    { a \o << ESPACIO >> \o b : a \in PrimerosMixtos, b \in TablaArmonia }

EntradasMixtas ==
    [texto : TextosArmonia \cup ParesMixtos,
     armonizacion : { "" }, clave : { "Clave 2-3" }]

IniciarMixta == Iniciar(EntradasMixtas, 1)

NextMixta ==
    \/ IniciarMixta
    \/ SegUnAcorde
    \/ SegDosAcordes
    \/ RetornarSched
    \/ GenerarVoicing
    \/ RetornarVoicings
    \/ ExportarArmonia
    \/ Escribir

SpecMixta == Init /\ [][NextMixta]_vars

\* the pitches generar_notas_mixtas emitted
PitchesGenerados ==
    { notas_generadas[k].pitch : k \in 1..Len(notas_generadas) }

\* C26: every note emitted by generar_notas_mixtas from generated voicings
\* has a pitch in the MIDI range 0..127, after octave doubling, double
\* octaves, tenths, thirteenths and the per-chord continuity offset.
C26_PitchesMidi ==
    Renderizado => PitchesGenerados \subseteq 0..127

C26_Testigo ==
    /\ Renderizado
    /\ LET t == Trazado
       IN  \E c \in Renderizados(t) :
             /\ EnEstilo(c, { "decimas", "treceavas" })
             /\ Len(IntervalosDe(c)) = 5
             /\ RenderizadoAntes(t, c) # 0
             /\ EnEstilo(RenderizadoAntes(t, c), { "octavas", "doble octava" })
             /\ DesplazamientosDeAcorde(t, c) \in { { 12 }, { -12 } }
             /\ \E i \in PosicionesDe(t, c) :
                   \E q \in Rango(PitchesEmitidos(t, i)) : q <= 45

----------------------------------------------------------------------------
(* Claims about the classification of the base tone *)

\* the pitch classes of the root, third, fifth and fourth-listed interval
\* of chord entry c
ClasesFuncionales(c) ==
    { (RaizDe(c) + IntervalosDe(c)[k]) % 12 : k \in 1..4 }

\* C27: every base tone the tenths and thirteenths branches take from a
\* generated voicing has the pitch class of the chord's root, third, fifth
\* or fourth-listed interval, so the unclassified branch (added tone =
\* base + 12) is never taken.
C27_BaseClasificada ==
    Renderizado =>
        \A i \in 1..Len(posiciones) :
            LET c == DuenoDe(posiciones[i])
            IN  EnEstilo(c, { "decimas", "treceavas" }) =>
                  LET b == BaseDePosicion(i)
                  IN  /\ b \in Rango(voicings[c])
                      /\ b % 12 \in ClasesFuncionales(c)
                      /\ { v % 12 : v \in Rango(voicings[c]) }
                            = ClasesFuncionales(c)
                      /\ agregada_de(b, info_de(resultado[c].nombre)).func
                            \in { "F", "3", "5", "6", "7" }
                      /\ agregada_de(b, info_de(resultado[c].nombre)).agregada
                            # b + 12

C27_Testigo ==
    /\ Renderizado
    /\ \E c \in 1..Len(resultado) :
          /\ EnEstilo(c, { "decimas" })
          /\ Len(IntervalosDe(c)) = 5
          /\ (RaizDe(c) + IntervalosDe(c)[5]) % 12 \notin ClasesFuncionales(c)
          /\ \A k \in 1..4 :
                \E i \in 1..Len(posiciones) :
                    /\ DuenoDe(posiciones[i]) = c
                    /\ BaseDePosicion(i) % 12
                          = (RaizDe(c) + IntervalosDe(c)[k]) % 12

====
